---- MODULE Spec2Model ----
(***************************************************************************)
(* Model of the diagnostic Context of wgpu-core (wgpu-core/src/context.rs) *)
(* and of the buffer operations of the deno_webgpu binding layer that      *)
(* reach the core through the CoreTable (deno_webgpu/buffer.rs,            *)
(* wgpu-core/src/core_table.rs).                                           *)
(***************************************************************************)
EXTENDS Integers, Sequences, FiniteSets, TLC

(***************************************************************************)
(* Bounds of the model.                                                    *)
(***************************************************************************)
\* Most operations performed on one Context in a behaviour.
MaxOps == 6

\* Field names given to Context::enter.
Fields == {"a", "b"}
\* Indices given to Context::index.
Indices == {0, 1}
\* The Diagnostic variants the model distinguishes.
DiagnosticKinds == {"DeviceError", "StageError"}
\* Values a fallible block can succeed with.
Values == {0, 1}

(***************************************************************************)
(* Option<T> as a sequence of at most one element.                         *)
(***************************************************************************)
None == <<>>
Some(x) == <<x>>
Unwrap(o) == o[1]

\* Result<T, Error>: Ok(value) or Err(Error), the Error marker carrying nothing.
Ok(v) == [tag |-> "Ok", value |-> Some(v)]
ErrMarker == [tag |-> "Err", value |-> None]
\* A call that does not return: an assertion failed.
Panic == [tag |-> "Panic", value |-> None]

\* TraceStep::Field(field, index)
Field(f, i) == [field |-> f, index |-> i]

Front(s) == SubSeq(s, 1, Len(s) - 1)
Last(s) == s[Len(s)]

VARIABLES
    \* Context::diagnostics, a sequence of StoredDiagnostic { trace, diagnostic }
    diagnostics,
    \* Context::trace
    trace,
    \* Context::stored_trace
    stored_trace,
    \* Context::traces
    traces,
    \* cfg!(debug_assertions) of the build: decides debug_assert!
    debug_assertions,
    \* "running", or "panicked" once an assertion has failed
    status,
    \* The Enter tokens handed out by enter and not yet given to leave. Each
    \* carries the fields of Enter and, as history, a serial and the trace at
    \* the time of the enter.
    tokens,
    \* History: for each step of `trace`, the serial of the enter that pushed it.
    owners,
    \* Number of try_block calls whose closure is running.
    try_depth,
    \* Number of operations performed on the Context so far.
    ops,
    \* History: has any Diagnostic been captured since Context::new.
    ever_captured,
    \* History: the diagnostics captured since the last drain (or since
    \* Context::new), each with the trace that was current at its capture.
    pending,
    \* The last operation and what it returned.
    ret

VARIABLES
    \* The per-backend resource hubs of the Global: for each compiled-in
    \* backend the records of its registries, in order of allocation.
    hubs,
    \* History: the identifiers bound by the create_*_error entries.
    assigned_error,
    \* deno_core's OpState::resource_table: the resource of every ResourceId
    \* handed out so far.
    resource_table

VARIABLES
    \* The native backends this build is compiled with (cfg(vulkan),
    \* cfg(dx12), cfg(gles)).
    build,
    \* Global::backends: for every field of the Backends container the strong
    \* count of its Arc<BackendDetails>; a field is gone once the count is 0.
    backends,
    \* Global::instance: whether it has been dropped, and the backends it has
    \* enabled.
    instance,
    \* Global::surfaces: the elements of the registry's map, in index order.
    surfaces,
    \* Where the Global is in its life ("alive"; "drop" inside Drop::drop;
    \* "drop_instance", "drop_surfaces", "drop_backends" before the drop of
    \* that field; "dropped"), and the backends whose hub Drop::drop cleared.
    pc,
    \* The Arc<dyn Device> and Arc<Device<A>> handles callers hold.
    handles,
    \* The &'static CoreTable references callers hold.
    held,
    \* The call of Global::generate_report in progress, if any, and the
    \* GlobalReport it has built so far.
    global_report

VARIABLES
    \* The call of op_webgpu_buffer_get_map_async in flight, if any: where it
    \* is, the two futures it joins, the flag `done` they share, the oneshot
    \* channel between the map callback and the op, and the device polls made.
    map_async

context_vars == <<diagnostics, trace, stored_trace, traces, debug_assertions,
                  tokens, owners, try_depth, ops, ever_captured, pending>>
vars == <<diagnostics, trace, stored_trace, traces, debug_assertions, status,
          tokens, owners, try_depth, ops, ever_captured, pending, ret,
          hubs, assigned_error, resource_table,
          build, backends, instance, surfaces, pc, handles, held, global_report,
          map_async>>
global_vars == <<build, backends, instance, surfaces, pc, handles, held, global_report>>

(***************************************************************************)
(* The build and Global::new                                               *)
(***************************************************************************)
\* wgt::Backend
Backends == {"Empty", "Vulkan", "Metal", "Dx12", "Gl", "BrowserWebGpu"}
\* The backends the builds of the CoreTable and binding layer models are
\* compiled with.
CompiledBackends == {"Vulkan", "Gl"}
\* The sets of native backends a build can be compiled with. cfg(metal) is
\* left out: with it, Drop for Global names the field `hubs`, which Global
\* does not have, and the crate does not build.
Builds == SUBSET {"Vulkan", "Dx12", "Gl"}

\* The fields of the Backends container of a build: one per native backend,
\* `empty` when there is none.
backends_fields(bld) == IF bld = {} THEN {"Empty"} ELSE bld

\* Backends::new: every field a fresh Arc.
Backends_new(bld) == [b \in backends_fields(bld) |-> 1]

\* No call of op_webgpu_buffer_get_map_async has been made.
NoMapAsync ==
    [at |-> "idle", poll_fut |-> "ready", receiver_fut |-> "waiting", done |-> FALSE,
     channel |-> "none", polls |-> 0, buffer |-> [backend |-> "Empty", index |-> 0]]

\* No call of generate_report has been made: no GlobalReport exists.
NoReport == [at |-> "idle", surfaces |-> 0, hubs |-> <<>>]

\* Global::new on a build, with an Instance that has `enabled` enabled.
Global_new(bld, enabled) ==
    /\ build = bld
    /\ backends = Backends_new(bld)
    /\ instance = [live |-> TRUE, enabled |-> enabled]
    /\ surfaces = <<>>
    /\ pc = [at |-> "alive", cleared |-> {}]
    /\ handles = <<>>
    /\ held = {}
    /\ global_report = NoReport

\* What an operation reports: its name, how it ended ("returned" or "panic"),
\* the value returned and the argument it was given; for enter and leave the
\* token's serial, for leave whether the token was issued by the enter that
\* pushed the top step; for drain the pairs it yielded.
NoReturn ==
    [op |-> "new", outcome |-> "returned", value |-> None, arg |-> None,
     serial |-> 0, matched |-> FALSE, items |-> <<>>]

(***************************************************************************)
(* Context::new                                                            *)
(***************************************************************************)
ContextNew ==
    /\ diagnostics = <<>>
    /\ trace = <<>>
    /\ stored_trace = None
    /\ traces = <<>>
    /\ debug_assertions \in BOOLEAN
    /\ status = "running"
    /\ tokens = {}
    /\ owners = <<>>
    /\ try_depth = 0
    /\ ops = 0
    /\ ever_captured = FALSE
    /\ pending = <<>>

\* A Context on its own: no Global is involved.
Init ==
    /\ ContextNew
    /\ ret = NoReturn
    /\ hubs = <<>>
    /\ assigned_error = {}
    /\ map_async = NoMapAsync
    /\ resource_table = <<>>
    /\ Global_new(CompiledBackends, CompiledBackends)

\* The Context is usable (nothing has panicked) and the behaviour may go on.
Running == status = "running" /\ ops < MaxOps

\* Every operation counts, and none reaches outside the Context.
Count ==
    /\ ops' = ops + 1
    /\ UNCHANGED <<hubs, assigned_error, resource_table, global_vars, map_async>>

(***************************************************************************)
(* Context::is_empty                                                       *)
(***************************************************************************)
is_empty(ds) == Len(ds) = 0

(***************************************************************************)
(* Context::enter: the new value of stored_trace and the token returned.   *)
(* The code clears stored_trace first and then take()s it for the token.   *)
(***************************************************************************)
enter_stored_trace(st) == None

enter_capture(st) ==
    LET cleared == enter_stored_trace(st)
    IN  cleared

enter_trace(tr, f) == Append(tr, Field(f, None))

\* The smallest serial held neither by an outstanding token nor by a step.
FreshSerial ==
    LET used == {t.serial : t \in tokens} \cup {owners[k] : k \in 1..Len(owners)}
    IN  CHOOSE n \in 1..(Cardinality(used) + 1) :
            /\ n \notin used
            /\ \A m \in 1..(n - 1) : m \in used

Enter(f) ==
    /\ Running
    /\ LET serial == FreshSerial
           token == [trace |-> Len(trace), capture |-> enter_capture(stored_trace),
                     serial |-> serial, snapshot |-> trace]
       IN  /\ trace' = enter_trace(trace, f)
           /\ stored_trace' = enter_stored_trace(stored_trace)
           /\ tokens' = tokens \cup {token}
           /\ owners' = Append(owners, serial)
           /\ ret' = [NoReturn EXCEPT !.op = "enter", !.arg = Some(f), !.serial = serial]
    /\ Count
    /\ UNCHANGED <<diagnostics, traces, debug_assertions, status, try_depth,
                   ever_captured, pending>>

(***************************************************************************)
(* Context::leave                                                          *)
(***************************************************************************)
\* self.trace.pop(): the trace left behind.
leave_trace(tr) == IF tr = <<>> THEN tr ELSE Front(tr)

\* Faulty variant of leave_balanced: the depth comparison is missing.
leave_balanced_nonempty_only(tr, enter) == tr # <<>>

\* The two debug_assert!s of leave, evaluated after the pop.
leave_balanced(tr, enter) ==
    /\ tr # <<>>
    /\ enter.trace = Len(leave_trace(tr))

Leave(enter) ==
    /\ Running
    /\ enter \in tokens
    /\ LET matched == owners # <<>> /\ Last(owners) = enter.serial
           fatal == debug_assertions /\ ~leave_balanced(trace, enter)
       IN  /\ trace' = leave_trace(trace)
           /\ owners' = leave_trace(owners)
           /\ tokens' = tokens \ {enter}
           /\ IF fatal
              THEN /\ status' = "panicked"
                   /\ UNCHANGED stored_trace
                   /\ ret' = [NoReturn EXCEPT !.op = "leave", !.outcome = "panic",
                                             !.serial = enter.serial, !.matched = matched]
              ELSE /\ status' = status
                   /\ stored_trace' = enter.capture
                   /\ ret' = [NoReturn EXCEPT !.op = "leave", !.serial = enter.serial,
                                             !.matched = matched]
    /\ Count
    /\ UNCHANGED <<diagnostics, traces, debug_assertions, try_depth, ever_captured,
                   pending>>

(***************************************************************************)
(* Context::index                                                          *)
(***************************************************************************)
\* Faulty variant of index_trace: every open step is annotated.
index_trace_all_steps(tr, i) == [k \in DOMAIN tr |-> [tr[k] EXCEPT !.index = Some(i)]]

\* Faulty variant of index_trace: annotates the first step instead of the last.
index_trace_first_step(tr, i) ==
    IF tr = <<>> THEN tr ELSE [tr EXCEPT ![1].index = Some(i)]

index_trace(tr, i) ==
    IF tr = <<>> THEN tr ELSE [tr EXCEPT ![Len(tr)].index = Some(i)]

\* Faulty variant of index_stored_trace: the cached interned index survives.
index_stored_trace_kept(st) == st

index_stored_trace(st) == None

Index(i) ==
    /\ Running
    /\ trace' = index_trace(trace, i)
    /\ stored_trace' = index_stored_trace(stored_trace)
    /\ ret' = [NoReturn EXCEPT !.op = "index", !.arg = Some(i)]
    /\ Count
    /\ UNCHANGED <<diagnostics, traces, debug_assertions, status, tokens, owners,
                   try_depth, ever_captured, pending>>

(***************************************************************************)
(* Context::capture                                                        *)
(***************************************************************************)
\* The index of the interned trace the captured diagnostic refers to.
capture_trace(st, trs) == IF st # None THEN Unwrap(st) ELSE Len(trs)

\* self.traces after the capture: the current trace is interned only when no
\* interned index is cached.
capture_traces(st, trs, tr) == IF st # None THEN trs ELSE Append(trs, tr)

capture_stored_trace(st, trs) == Some(capture_trace(st, trs))

\* The state change of capture(diagnostic), shared by capture, report and result.
capture(diagnostic) ==
    /\ diagnostics' = Append(diagnostics,
                             [trace |-> capture_trace(stored_trace, traces),
                              diagnostic |-> diagnostic])
    /\ traces' = capture_traces(stored_trace, traces, trace)
    /\ stored_trace' = capture_stored_trace(stored_trace, traces)
    /\ ever_captured' = TRUE
    /\ pending' = Append(pending, [at |-> trace, diagnostic |-> diagnostic])

Capture(d) ==
    /\ Running
    /\ capture(d)
    /\ ret' = [NoReturn EXCEPT !.op = "capture", !.arg = Some(d)]
    /\ Count
    /\ UNCHANGED <<trace, debug_assertions, status, tokens, owners, try_depth>>

(***************************************************************************)
(* Context::report                                                         *)
(***************************************************************************)
Report(d) ==
    /\ Running
    /\ capture(d)
    /\ ret' = [NoReturn EXCEPT !.op = "report", !.arg = Some(d), !.value = ErrMarker]
    /\ Count
    /\ UNCHANGED <<trace, debug_assertions, status, tokens, owners, try_depth>>

(***************************************************************************)
(* Context::result                                                         *)
(***************************************************************************)
\* The Result<T, E> arguments: Ok(v), or Err(e) with e convertible into the
\* Diagnostic variant `error`.
ResultArgs ==
    {[tag |-> "Ok", value |-> v] : v \in Values}
        \cup {[tag |-> "Err", error |-> d] : d \in DiagnosticKinds}

\* Faulty variant of result_value: every result is mapped to the marker.
result_value_always_err(r) == ErrMarker

result_value(r) == IF r.tag = "Ok" THEN Ok(r.value) ELSE ErrMarker

Result(r) ==
    /\ Running
    /\ IF r.tag = "Ok"
       THEN UNCHANGED <<diagnostics, traces, stored_trace, ever_captured, pending>>
       ELSE capture(r.error)
    /\ ret' = [NoReturn EXCEPT !.op = "result", !.arg = Some(r),
                               !.value = result_value(r)]
    /\ Count
    /\ UNCHANGED <<trace, debug_assertions, status, tokens, owners, try_depth>>

(***************************************************************************)
(* Context::drain                                                          *)
(***************************************************************************)
\* self.traces.get(i)
traces_get(trs, i) == IF i < Len(trs) THEN Some(trs[i + 1]) ELSE None

\* Faulty variant of drain_items: yields the newest diagnostic first.
drain_items_reversed(ds, trs) ==
    [k \in 1..Len(ds) |->
        [path |-> traces_get(trs, ds[Len(ds) + 1 - k].trace),
         diagnostic |-> ds[Len(ds) + 1 - k].diagnostic]]

\* The (trace, diagnostic) pairs the drain iterator yields.
drain_items(ds, trs) ==
    [k \in 1..Len(ds) |->
        [path |-> traces_get(trs, ds[k].trace), diagnostic |-> ds[k].diagnostic]]

\* Faulty variant of drain_diagnostics: iterates without removing.
drain_diagnostics_kept(ds) == ds

\* self.diagnostics once the Drain iterator has been dropped.
drain_diagnostics(ds) == <<>>

Drain ==
    /\ Running
    /\ ret' = [NoReturn EXCEPT !.op = "drain", !.items = drain_items(diagnostics, traces)]
    /\ diagnostics' = drain_diagnostics(diagnostics)
    /\ pending' = <<>>
    /\ Count
    /\ UNCHANGED <<trace, stored_trace, traces, debug_assertions, status, tokens,
                   owners, try_depth, ever_captured>>

(***************************************************************************)
(* Context::try_block. The closure is caller code that runs Context        *)
(* operations: TryBlockCall starts it, TryBlockReturn is the closure       *)
(* returning `cb` and the rest of try_block.                               *)
(***************************************************************************)
ClosureResults == {Ok(v) : v \in Values} \cup {ErrMarker}

\* Faulty variant of try_block_outcome: only the debug_assert! guards the
\* result, the recovery branch is missing.
try_block_outcome_assert_only(cb, ds, dbg) ==
    IF cb.tag = "Err" THEN ErrMarker
    ELSE IF dbg /\ ~is_empty(ds) THEN Panic
    ELSE Ok(Unwrap(cb.value))

\* Faulty variant of try_block_outcome: the closure's Ok is passed on
\* whatever the Context holds.
try_block_outcome_trusts_closure(cb, ds, dbg) ==
    IF cb.tag = "Err" THEN ErrMarker ELSE Ok(Unwrap(cb.value))

\* Faulty variant of try_block_outcome: the debug_assert! is missing, the
\* recovery branch runs in every build.
try_block_outcome_recover_only(cb, ds, dbg) ==
    IF cb.tag = "Err" THEN ErrMarker
    ELSE IF ~is_empty(ds) THEN ErrMarker
    ELSE Ok(Unwrap(cb.value))

\* What try_block does once the closure has returned cb: Panic for the
\* failed debug_assert!, or the Result it returns.
try_block_outcome(cb, ds, dbg) ==
    IF cb.tag = "Err" THEN ErrMarker
    ELSE IF dbg /\ ~is_empty(ds) THEN Panic
    ELSE IF ~is_empty(ds) THEN ErrMarker
    ELSE Ok(Unwrap(cb.value))

TryBlockCall ==
    /\ Running
    /\ try_depth' = try_depth + 1
    /\ ret' = [NoReturn EXCEPT !.op = "try_block_call"]
    /\ Count
    /\ UNCHANGED <<diagnostics, trace, stored_trace, traces, debug_assertions,
                   status, tokens, owners, ever_captured, pending>>

TryBlockReturn(cb) ==
    /\ Running
    /\ try_depth > 0
    /\ try_depth' = try_depth - 1
    /\ LET out == try_block_outcome(cb, diagnostics, debug_assertions)
       IN  IF out.tag = "Panic"
           THEN /\ status' = "panicked"
                /\ ret' = [NoReturn EXCEPT !.op = "try_block", !.outcome = "panic",
                                           !.arg = Some(cb)]
           ELSE /\ status' = status
                /\ ret' = [NoReturn EXCEPT !.op = "try_block", !.arg = Some(cb),
                                           !.value = out]
    /\ Count
    /\ UNCHANGED <<diagnostics, trace, stored_trace, traces, debug_assertions,
                   tokens, owners, ever_captured, pending>>

Next ==
    \/ \E f \in Fields : Enter(f)
    \/ \E enter \in tokens : Leave(enter)
    \/ \E i \in Indices : Index(i)
    \/ \E d \in DiagnosticKinds : Capture(d)
    \/ \E d \in DiagnosticKinds : Report(d)
    \/ \E r \in ResultArgs : Result(r)
    \/ Drain
    \/ TryBlockCall
    \/ \E cb \in ClosureResults : TryBlockReturn(cb)

Spec == Init /\ [][Next]_vars

(***************************************************************************)
(* The per-backend hubs behind the CoreTable.                              *)
(***************************************************************************)
\* Most identifiers allocated in all hubs together, the devices included.
MaxIds == 4

\* The entries of the CoreTable the model follows, by their signatures.
\* fn(&self, id_in: (), label: Label)
ErrorEntries ==
    {"create_buffer_error", "create_texture_error", "create_render_bundle_error"}
\* fn(&self, device_id, desc, id_in) -> (Id, Option<Error>)
CreateEntries == {"device_create_buffer", "device_create_texture"}
\* Entries that take the identifier of a resource and return a Result.
FallibleEntries ==
    {"buffer_destroy", "buffer_get_mapped_range", "buffer_unmap",
     "texture_destroy", "texture_create_view"}
\* Entries that take the identifier of a resource and return a String or nothing.
InfallibleEntries ==
    {"buffer_label", "buffer_drop", "texture_label", "texture_drop",
     "render_bundle_label", "render_bundle_drop"}
IdEntries == FallibleEntries \cup InfallibleEntries

\* The kind of resource an entry creates or takes the identifier of.
entry_kind(name) ==
    IF name \in {"create_buffer_error", "device_create_buffer", "buffer_destroy",
                 "buffer_get_mapped_range", "buffer_unmap", "buffer_label", "buffer_drop"}
    THEN "buffer"
    ELSE IF name \in {"create_texture_error", "device_create_texture", "texture_destroy",
                      "texture_create_view", "texture_label", "texture_drop"}
    THEN "texture"
    ELSE "render_bundle"

\* One record of a registry: the resource is Valid, or Error (the identifier
\* is bound to a permanently errored record), Destroyed, or Vacant once the
\* identifier has been dropped.
Record(kind, state, mapped) == [kind |-> kind, state |-> state, mapped |-> mapped]

\* An identifier: the backend tag it embeds and its index in that hub.
Id(backend, index) == [backend |-> backend, index |-> index]

\* What an implementation hands back.
Out(tag, detail) == [tag |-> tag, detail |-> detail]

\* The identifiers allocated so far.
Allocated == UNION {{Id(b, k) : k \in 1..Len(hubs[b])} : b \in DOMAIN hubs}

\* The identifiers a caller may still hold: allocated and not dropped.
LiveIds == {id \in Allocated : hubs[id.backend][id.index].state # "Vacant"}

IdsAllocated == Cardinality(Allocated)

\* Global::create_buffer_error::<A> and its texture and render bundle
\* variants: prepare a fresh identifier and assign it the error.
global_create_error(name, hub) ==
    [out |-> Out("Unit", ""),
     hub |-> Append(hub, Record(entry_kind(name), "Error", FALSE)),
     touched |-> FALSE]

\* Global::device_create_buffer::<A>, Global::device_create_texture::<A>: the
\* identifier is bound to the resource, or to an error when the device is
\* not valid or the descriptor fails validation.
global_create(name, hub, device, desc) ==
    LET ok == hub[device].state = "Valid" /\ desc.ok
    IN  [out |-> Out("Id", IF ok THEN "" ELSE "CreateError"),
         hub |-> Append(hub,
                        IF ok THEN Record(entry_kind(name), "Valid", desc.mapped)
                              ELSE Record(entry_kind(name), "Error", FALSE)),
         touched |-> FALSE]

\* Faulty variant of global_use: the record's tag is not inspected, an
\* errored record is used like a valid one.
global_use_unchecked(name, hub, index) ==
    [out |-> IF name \in FallibleEntries THEN Out("Ok", "") ELSE Out("Unit", ""),
     hub |-> hub,
     touched |-> TRUE]

\* Global::<name>::<A> for the entries that take an identifier: look the
\* record up and inspect its tag before touching the payload.
global_use(name, hub, index) ==
    LET rec == hub[index]
        dropped == [hub EXCEPT ![index].state = "Vacant", ![index].mapped = FALSE]
    IN  IF name \in {"buffer_drop", "texture_drop", "render_bundle_drop"}
        THEN [out |-> Out("Unit", ""), hub |-> dropped, touched |-> rec.state = "Valid"]
        ELSE IF name \in {"buffer_label", "texture_label", "render_bundle_label"}
        THEN [out |-> Out("Label", IF rec.state = "Error" THEN "<Invalid>" ELSE "label"),
              hub |-> hub, touched |-> rec.state # "Error"]
        ELSE IF rec.state = "Error"
        THEN [out |-> Out("Err", "Invalid"), hub |-> hub, touched |-> FALSE]
        ELSE IF rec.state = "Destroyed"
        THEN [out |-> Out("Err", "Destroyed"), hub |-> hub, touched |-> FALSE]
        ELSE IF name \in {"buffer_destroy", "texture_destroy"}
        THEN [out |-> Out("Ok", ""),
              hub |-> [hub EXCEPT ![index].state = "Destroyed", ![index].mapped = FALSE],
              touched |-> TRUE]
        ELSE IF name = "buffer_get_mapped_range"
        THEN [out |-> IF rec.mapped THEN Out("Ok", "") ELSE Out("Err", "NotMapped"),
              hub |-> hub, touched |-> TRUE]
        ELSE IF name = "buffer_unmap"
        THEN [out |-> IF rec.mapped THEN Out("Ok", "") ELSE Out("Err", "NotMapped"),
              hub |-> [hub EXCEPT ![index].mapped = FALSE], touched |-> TRUE]
        ELSE IF name = "buffer_map_async"
        THEN [out |-> IF rec.mapped THEN Out("Err", "AlreadyMapped") ELSE Out("Ok", ""),
              hub |-> hub, touched |-> TRUE]
        ELSE [out |-> Out("Id", ""), hub |-> hub, touched |-> TRUE]

(***************************************************************************)
(* CoreTable                                                               *)
(***************************************************************************)
\* The backend types, in the order of the arms of try_from_backend.
ApiOrder == <<"Empty", "Vulkan", "Metal", "Dx12", "Gl">>

\* The address of the static CoreTable that CoreTable::new::<A> refers to:
\* one promoted constant for each A.
static_addr(A) == CHOOSE k \in DOMAIN ApiOrder : ApiOrder[k] = A

\* CoreTable::new::<A>(): a reference to the static table holding the
\* backend tag A::VARIANT and, for every entry, the address of A's instance
\* of the Global function of the same name.
CoreTable_new(A) == [addr |-> static_addr(A), backend |-> A, api |-> A]

\* gfx_try_if_empty!, gfx_try_if_vulkan!, ...: whether the arm of the
\* backend is compiled into the build. Empty stands in when there is no
\* native backend.
compiled_in(bld, backend) ==
    IF backend = "Empty" THEN bld = {} ELSE backend \in bld

\* Faulty variant of try_from_backend: the Gl arm constructs the Vulkan table.
try_from_backend_gl_as_vulkan(backend) ==
    IF backend \in {"Empty", "Vulkan", "Metal", "Dx12", "Gl"} /\ compiled_in(build, backend)
    THEN Some(CoreTable_new(IF backend = "Gl" /\ "Vulkan" \in build THEN "Vulkan" ELSE backend))
    ELSE None

\* Faulty variant of try_from_backend: a backend that is not compiled in
\* falls back to the table of one that is.
try_from_backend_fallback(backend) ==
    IF backend \in {"Empty", "Vulkan", "Metal", "Dx12", "Gl"} /\ compiled_in(build, backend)
    THEN Some(CoreTable_new(backend))
    ELSE IF build # {} THEN Some(CoreTable_new(CHOOSE b \in build : TRUE))
    ELSE None

\* CoreTable::try_from_backend
try_from_backend(backend) ==
    IF backend \in {"Empty", "Vulkan", "Metal", "Dx12", "Gl"} /\ compiled_in(build, backend)
    THEN Some(CoreTable_new(backend))
    ELSE None

\* CoreTable::from_backend: the table, or None where it panics.
from_backend(backend) ==
    LET found == try_from_backend(backend)
    IN  IF found # None THEN found ELSE None

\* <CoreTable as PartialEq>::eq: ptr::eq
CoreTable_eq(self, other) == self.addr = other.addr

\* The serialized form of a wgt::Backend: its discriminant.
BackendTags ==
    [Empty |-> 0, Vulkan |-> 1, Metal |-> 2, Dx12 |-> 3, Gl |-> 4, BrowserWebGpu |-> 5]

\* <wgt::Backend as Serialize>::serialize
Backend_serialize(backend) == BackendTags[backend]

\* <wgt::Backend as Deserialize>::deserialize: None for a tag of no variant.
Backend_deserialize(tag) ==
    IF \E b \in Backends : BackendTags[b] = tag
    THEN Some(CHOOSE b \in Backends : BackendTags[b] = tag)
    ELSE None

\* <CoreTable as Serialize>::serialize
CoreTable_serialize(self) == Backend_serialize(self.backend)

\* Faulty variant of CoreTable_deserialize: the tag is not looked up against
\* the compiled-in backends.
CoreTable_deserialize_unchecked(tag) ==
    LET backend == Backend_deserialize(tag)
    IN  IF backend = None THEN [out |-> None, err |-> "invalid value"]
        ELSE IF Unwrap(backend) \in DOMAIN BackendTags \ {"BrowserWebGpu"}
        THEN [out |-> Some(CoreTable_new(Unwrap(backend))), err |-> ""]
        ELSE [out |-> None, err |-> "Unsupported backend"]

\* <&'static CoreTable as Deserialize>::deserialize
CoreTable_deserialize(tag) ==
    LET backend == Backend_deserialize(tag)
    IN  IF backend = None THEN [out |-> None, err |-> "invalid value"]
        ELSE LET core == try_from_backend(Unwrap(backend))
             IN  IF core # None THEN [out |-> core, err |-> ""]
                 ELSE [out |-> None, err |-> "Unsupported backend"]

\* Faulty variant of global_call: the tag the identifier embeds is not
\* looked at, its index is used in A's registries.
global_call_untagged(A, name, hs, id) ==
    IF id.index \in 1..Len(hs[A])
    THEN LET r == global_use(name, hs[A], id.index)
         IN  [out |-> r.out, hubs |-> [hs EXCEPT ![A] = r.hub], touched |-> r.touched,
              fatal |-> FALSE]
    ELSE [out |-> Out("Err", "Invalid"), hubs |-> hs, touched |-> FALSE, fatal |-> FALSE]

\* Global::<name>::<A>(global, id): A's implementation of an entry that
\* takes an identifier. An identifier of another backend is fatal.
global_call(A, name, hs, id) ==
    IF id.backend # A
    THEN [out |-> Out("Fatal", "backend mismatch"), hubs |-> hs, touched |-> FALSE,
          fatal |-> TRUE]
    ELSE LET r == global_use(name, hs[A], id.index)
         IN  [out |-> r.out, hubs |-> [hs EXCEPT ![A] = r.hub], touched |-> r.touched,
              fatal |-> FALSE]

\* One invocation of an implementation: the backend type it is instantiated
\* for, its name and the arguments it was given.
Call(A, name, args) == [api |-> A, name |-> name, args |-> args]

\* An entry wrapper: (self.$name)(global, args). The result is handed back
\* as it is; `calls` lists the invocations the wrapper made.
table_create_error(table, name, hs) ==
    LET r == global_create_error(name, hs[table.api])
    IN  [out |-> r.out, hubs |-> [hs EXCEPT ![table.api] = r.hub], touched |-> r.touched,
         fatal |-> FALSE, calls |-> <<Call(table.api, name, <<>>)>>]

table_create(table, name, hs, device, desc) ==
    LET r == global_create(name, hs[table.api], device, desc)
    IN  [out |-> r.out, hubs |-> [hs EXCEPT ![table.api] = r.hub], touched |-> r.touched,
         fatal |-> FALSE, calls |-> <<Call(table.api, name, <<device, desc>>)>>]

\* Faulty variant of table_use: the wrapper passes on the first identifier of
\* the hub instead of its argument.
table_use_first_id(table, name, hs, id) ==
    LET r == global_call(table.api, name, hs, Id(id.backend, 1))
    IN  [out |-> r.out, hubs |-> r.hubs, touched |-> r.touched, fatal |-> r.fatal,
         calls |-> <<Call(table.api, name, <<Id(id.backend, 1)>>)>>]

\* Faulty variant of table_use: the wrapper calls the implementation twice.
table_use_twice(table, name, hs, id) ==
    LET first == global_call(table.api, name, hs, id)
        r == IF first.fatal THEN first ELSE global_call(table.api, name, first.hubs, id)
    IN  [out |-> r.out, hubs |-> r.hubs, touched |-> r.touched, fatal |-> r.fatal,
         calls |-> <<Call(table.api, name, <<id>>), Call(table.api, name, <<id>>)>>]

table_use(table, name, hs, id) ==
    LET r == global_call(table.api, name, hs, id)
    IN  [out |-> r.out, hubs |-> r.hubs, touched |-> r.touched, fatal |-> r.fatal,
         calls |-> <<Call(table.api, name, <<id>>)>>]

\* What a call through the table reports: the entry, the identifier it took
\* or produced, whether that identifier had been bound by a create_*_error
\* entry, what came back, whether the implementation reached a resource, the
\* backend tag of the table, and the invocations its wrapper made.
NoCall ==
    [op |-> "new", id |-> Id("Empty", 0), on_errored |-> FALSE,
     out |-> Out("Unit", ""), touched |-> FALSE, table |-> "", calls |-> <<>>]

\* A Global with a device in the hub of every compiled-in backend.
InitCore ==
    /\ ContextNew
    /\ ~debug_assertions
    /\ ret = NoCall
    /\ hubs = [b \in CompiledBackends |-> <<Record("device", "Valid", FALSE)>>]
    /\ assigned_error = {}
    /\ map_async = NoMapAsync
    /\ resource_table = <<>>
    /\ Global_new(CompiledBackends, CompiledBackends)

CoreFrame == UNCHANGED <<context_vars, resource_table, global_vars, map_async>>

\* A call of create_buffer_error, create_texture_error or
\* create_render_bundle_error through the table of a backend.
CoreCreateError(backend, name) ==
    /\ status = "running"
    /\ IdsAllocated < MaxIds
    /\ LET table == Unwrap(try_from_backend(backend))
           r == table_create_error(table, name, hubs)
           id == Id(backend, Len(hubs[backend]) + 1)
       IN  /\ hubs' = r.hubs
           /\ assigned_error' = assigned_error \cup {id}
           /\ ret' = [op |-> name, id |-> id, on_errored |-> TRUE, out |-> r.out,
                      touched |-> r.touched, table |-> table.backend, calls |-> r.calls]
    /\ UNCHANGED status
    /\ CoreFrame

\* A call of device_create_buffer or device_create_texture.
CoreCreate(backend, name, desc) ==
    /\ status = "running"
    /\ IdsAllocated < MaxIds
    /\ LET table == Unwrap(try_from_backend(backend))
           r == table_create(table, name, hubs, 1, desc)
           id == Id(backend, Len(hubs[backend]) + 1)
       IN  /\ hubs' = r.hubs
           /\ ret' = [op |-> name, id |-> id, on_errored |-> FALSE, out |-> r.out,
                      touched |-> r.touched, table |-> table.backend, calls |-> r.calls]
    /\ UNCHANGED <<assigned_error, status>>
    /\ CoreFrame

\* A call of an entry that takes the identifier of a resource, through the
\* table of the backend the identifier embeds.
CoreUse(id, name) ==
    /\ status = "running"
    /\ hubs[id.backend][id.index].kind = entry_kind(name)
    /\ LET table == Unwrap(try_from_backend(id.backend))
           r == table_use(table, name, hubs, id)
       IN  /\ hubs' = r.hubs
           /\ ret' = [op |-> name, id |-> id, on_errored |-> id \in assigned_error,
                      out |-> r.out, touched |-> r.touched, table |-> table.backend,
                      calls |-> r.calls]
           /\ status' = IF r.fatal THEN "panicked" ELSE status
    /\ UNCHANGED assigned_error
    /\ CoreFrame

\* A call of an entry that takes the identifier of a resource, through the
\* table of a backend other than the one the identifier embeds.
CoreUseMismatched(backend, id, name) ==
    /\ status = "running"
    /\ backend # id.backend
    /\ hubs[id.backend][id.index].kind = entry_kind(name)
    /\ LET table == Unwrap(try_from_backend(backend))
           r == table_use(table, name, hubs, id)
       IN  /\ hubs' = r.hubs
           /\ ret' = [op |-> name, id |-> id, on_errored |-> id \in assigned_error,
                      out |-> r.out, touched |-> r.touched, table |-> table.backend,
                      calls |-> r.calls]
           /\ status' = IF r.fatal THEN "panicked" ELSE status
    /\ UNCHANGED assigned_error
    /\ CoreFrame

Descriptors == [ok : BOOLEAN, mapped : BOOLEAN]

NextCore ==
    \/ \E b \in CompiledBackends, name \in ErrorEntries : CoreCreateError(b, name)
    \/ \E b \in CompiledBackends, name \in CreateEntries, desc \in Descriptors :
          CoreCreate(b, name, desc)
    \/ \E id \in LiveIds, name \in IdEntries : CoreUse(id, name)

SpecCore == InitCore /\ [][NextCore]_vars

\* Callers that may also pick the table of another backend than the one the
\* identifier embeds.
NextCoreMisuse ==
    \/ \E b \in CompiledBackends, name \in ErrorEntries : CoreCreateError(b, name)
    \/ \E b \in CompiledBackends, name \in CreateEntries, desc \in Descriptors :
          CoreCreate(b, name, desc)
    \/ \E id \in LiveIds, name \in IdEntries : CoreUse(id, name)
    \/ \E backend \in CompiledBackends, id \in LiveIds, name \in IdEntries :
          CoreUseMismatched(backend, id, name)

SpecCoreMisuse == InitCore /\ [][NextCoreMisuse]_vars

(***************************************************************************)
(* Looking up, comparing and serializing tables                            *)
(***************************************************************************)
\* What a lookup, comparison or (de)serialization reports: the backend or
\* the serialized tag it was given, the tables it was given, the table that
\* came back, the result of a comparison, and the error of a deserialization.
NoTableCall ==
    [op |-> "new", backend |-> "", tag |-> 0, tables |-> <<>>, out |-> None,
     equal |-> FALSE, err |-> ""]

\* Any build, no table looked up yet.
InitTable ==
    /\ ContextNew
    /\ ~debug_assertions
    /\ ret = NoTableCall
    /\ \E bld \in Builds : Global_new(bld, bld)
    /\ hubs = <<>>
    /\ assigned_error = {}
    /\ map_async = NoMapAsync
    /\ resource_table = <<>>

TableFrame ==
    UNCHANGED <<context_vars, hubs, assigned_error, resource_table, build, backends,
                instance, surfaces, pc, handles, global_report, map_async>>

\* CoreTable::try_from_backend
TryFromBackend(backend) ==
    /\ status = "running"
    /\ LET found == try_from_backend(backend)
       IN  /\ ret' = [NoTableCall EXCEPT !.op = "try_from_backend", !.backend = backend,
                                         !.out = found]
           /\ held' = IF found = None THEN held ELSE held \cup {Unwrap(found)}
    /\ UNCHANGED status
    /\ TableFrame

\* CoreTable::from_backend
FromBackend(backend) ==
    /\ status = "running"
    /\ LET found == from_backend(backend)
       IN  /\ ret' = [NoTableCall EXCEPT !.op = "from_backend", !.backend = backend,
                                         !.out = found]
           /\ held' = IF found = None THEN held ELSE held \cup {Unwrap(found)}
           /\ status' = IF found = None THEN "panicked" ELSE status
    /\ TableFrame

\* self == other on two tables the caller holds.
TableEq(self, other) ==
    /\ status = "running"
    /\ ret' = [NoTableCall EXCEPT !.op = "eq", !.tables = <<self, other>>,
                                  !.equal = CoreTable_eq(self, other)]
    /\ UNCHANGED <<status, held>>
    /\ TableFrame

\* Serializing a table the caller holds.
TableSerialize(self) ==
    /\ status = "running"
    /\ ret' = [NoTableCall EXCEPT !.op = "serialize", !.tables = <<self>>,
                                  !.tag = CoreTable_serialize(self)]
    /\ UNCHANGED <<status, held>>
    /\ TableFrame

\* The serialized tags a deserializer may be given: every backend's, also
\* of backends of other builds, and one that is no backend's.
TagArgs == 0..6

\* Deserializing a table.
TableDeserialize(tag) ==
    /\ status = "running"
    /\ LET r == CoreTable_deserialize(tag)
       IN  /\ ret' = [NoTableCall EXCEPT !.op = "deserialize", !.tag = tag,
                                         !.out = r.out, !.err = r.err]
           /\ held' = IF r.out = None THEN held ELSE held \cup {Unwrap(r.out)}
    /\ UNCHANGED status
    /\ TableFrame

NextTable ==
    \/ \E backend \in Backends : TryFromBackend(backend)
    \/ \E backend \in Backends : FromBackend(backend)
    \/ \E self \in held, other \in held : TableEq(self, other)
    \/ \E self \in held : TableSerialize(self)
    \/ \E tag \in TagArgs : TableDeserialize(tag)

SpecTable == InitTable /\ [][NextTable]_vars

(***************************************************************************)
(* The buffer operations of the deno_webgpu binding layer.                 *)
(***************************************************************************)
\* Most resources ever added to the resource table, the device included.
MaxResources == 4

\* All bits of wgpu_types::BufferUsages (MAP_READ = 1 << 0 up to
\* QUERY_RESOLVE = 1 << 9).
BufferUsagesAll == 1023

\* wgpu_types::BufferUsages::from_bits: None when a bit outside the flags is set.
from_bits(usage) == IF usage \div (BufferUsagesAll + 1) = 0 THEN Some(usage) ELSE None

\* The `usage` arguments: MAP_READ; COPY_DST | MAP_READ; bit 10, which is no
\* flag; bit 10 with MAP_READ.
UsageArgs == {1, 9, 1024, 1025}

\* wgt::Limits::max_buffer_size of the device, and the `size` arguments.
DeviceMaxBufferSize == 32
SizeArgs == {16, 64}

\* A resource of the table: its name(), and for a device or a buffer the
\* identifier and the CoreTable it holds.
Resource(kind, id, core) == [kind |-> kind, id |-> id, core |-> core]
Closed == Resource("closed", Id("Empty", 0), CoreTable_new("Empty"))
BufferMapped == Resource("webGPUBufferMapped", Id("Empty", 0), CoreTable_new("Empty"))

\* ResourceTable::get::<T>(rid): a bad resource id when absent or of another type.
resource_get(rt, rid, kind) ==
    IF rid \in 1..Len(rt) /\ rt[rid].kind = kind THEN Some(rt[rid]) ELSE None

\* ResourceTable::add
resource_add(rt, res) == Append(rt, res)

\* ResourceTable::take::<T>(rid) and ResourceTable::close(rid): the entry is gone.
resource_remove(rt, rid) == [rt EXCEPT ![rid] = Closed]

\* What an op reports: how it ended ("Ok", "Err" or "panic"), the error of an
\* Err, the rid and the error of the WebGpuResult, and its arguments.
NoOp ==
    [op |-> "new", outcome |-> "Ok", err |-> "", rid |-> 0, maybe_err |-> "",
     usage |-> 0, device_ok |-> FALSE, buffer |-> None]

\* An OpState with one device, of the Vulkan backend, in the resource table.
InitGlue ==
    /\ ContextNew
    /\ ~debug_assertions
    /\ ret = NoOp
    /\ hubs = [b \in CompiledBackends |-> <<Record("device", "Valid", FALSE)>>]
    /\ assigned_error = {}
    /\ map_async = NoMapAsync
    /\ resource_table =
          <<Resource("webGPUDevice", Id("Vulkan", 1), CoreTable_new("Vulkan"))>>
    /\ Global_new(CompiledBackends, CompiledBackends)

GlueFrame == UNCHANGED <<context_vars, assigned_error, global_vars, map_async>>

\* op_webgpu_create_buffer
op_webgpu_create_buffer(device_rid, size, usage, mapped_at_creation) ==
    /\ status = "running"
    /\ LET device == resource_get(resource_table, device_rid, "webGPUDevice")
           bits == from_bits(usage)
           report == [NoOp EXCEPT !.op = "op_webgpu_create_buffer", !.usage = usage,
                                  !.device_ok = device # None]
       IN  IF device = None
           THEN /\ ret' = [report EXCEPT !.outcome = "Err", !.err = "BadResource"]
                /\ UNCHANGED <<hubs, resource_table>>
           ELSE IF bits = None
           THEN /\ ret' = [report EXCEPT !.outcome = "Err",
                                         !.err = "TypeError: usage is not valid"]
                /\ UNCHANGED <<hubs, resource_table>>
           ELSE \* gfx_put!: the call through the device's table, the new
                \* WebGpuBuffer added to the resource table, rid and error returned.
                /\ Len(resource_table) < MaxResources
                /\ IdsAllocated < MaxIds
                /\ LET desc == [ok |-> size <= DeviceMaxBufferSize,
                                mapped |-> mapped_at_creation]
                       r == table_create(Unwrap(device).core, "device_create_buffer",
                                         hubs, Unwrap(device).id.index, desc)
                       id == Id(Unwrap(device).core.backend,
                                Len(hubs[Unwrap(device).core.api]) + 1)
                   IN  /\ hubs' = r.hubs
                       /\ resource_table' =
                             resource_add(resource_table,
                                          Resource("webGPUBuffer", id, Unwrap(device).core))
                       /\ ret' = [report EXCEPT !.rid = Len(resource_table) + 1,
                                                !.maybe_err = r.out.detail,
                                                !.buffer = Some(id)]
    /\ UNCHANGED status
    /\ GlueFrame

\* op_webgpu_buffer_get_mapped_range; buf_fits says whether `buf` is as long
\* as the mapped range (copy_from_slice panics when it is not).
op_webgpu_buffer_get_mapped_range(buffer_rid, buf_fits) ==
    /\ status = "running"
    /\ LET buffer == resource_get(resource_table, buffer_rid, "webGPUBuffer")
           report == [NoOp EXCEPT !.op = "op_webgpu_buffer_get_mapped_range",
                                  !.buffer = IF buffer = None THEN None
                                             ELSE Some(Unwrap(buffer).id)]
       IN  IF buffer = None
           THEN /\ ret' = [report EXCEPT !.outcome = "Err", !.err = "BadResource"]
                /\ UNCHANGED <<hubs, resource_table, status>>
           ELSE LET r == table_use(Unwrap(buffer).core, "buffer_get_mapped_range",
                                   hubs, Unwrap(buffer).id)
                IN  IF r.out.tag = "Err"
                    THEN /\ ret' = [report EXCEPT !.outcome = "Err",
                                                  !.err = r.out.detail]
                         /\ hubs' = r.hubs
                         /\ UNCHANGED <<resource_table, status>>
                    ELSE IF ~buf_fits
                    THEN /\ ret' = [report EXCEPT !.outcome = "panic"]
                         /\ status' = "panicked"
                         /\ hubs' = r.hubs
                         /\ UNCHANGED resource_table
                    ELSE /\ Len(resource_table) < MaxResources
                         /\ hubs' = r.hubs
                         /\ resource_table' = resource_add(resource_table, BufferMapped)
                         /\ ret' = [report EXCEPT !.rid = Len(resource_table) + 1]
                         /\ UNCHANGED status
    /\ GlueFrame

\* The `buf` argument of op_webgpu_buffer_unmap: absent, as long as the
\* mapped range, or of another length.
UnmapBufArgs == {"none", "fits", "misfit"}

\* op_webgpu_buffer_unmap
op_webgpu_buffer_unmap(buffer_rid, mapped_rid, buf) ==
    /\ status = "running"
    /\ LET mapped == resource_get(resource_table, mapped_rid, "webGPUBufferMapped")
           taken == resource_remove(resource_table, mapped_rid)
           buffer == resource_get(taken, buffer_rid, "webGPUBuffer")
           report == [NoOp EXCEPT !.op = "op_webgpu_buffer_unmap", !.rid = mapped_rid,
                                  !.buffer = IF buffer = None THEN None
                                             ELSE Some(Unwrap(buffer).id)]
       IN  IF mapped = None
           THEN /\ ret' = [report EXCEPT !.outcome = "Err", !.err = "BadResource",
                                         !.buffer = None]
                /\ UNCHANGED <<hubs, resource_table, status>>
           ELSE IF buffer = None
           THEN /\ ret' = [report EXCEPT !.outcome = "Err", !.err = "BadResource"]
                /\ resource_table' = taken
                /\ UNCHANGED <<hubs, status>>
           ELSE IF buf = "misfit"
           THEN /\ ret' = [report EXCEPT !.outcome = "panic"]
                /\ status' = "panicked"
                /\ resource_table' = taken
                /\ UNCHANGED hubs
           ELSE LET r == table_use(Unwrap(buffer).core, "buffer_unmap", hubs,
                                   Unwrap(buffer).id)
                IN  /\ resource_table' = taken
                    /\ hubs' = r.hubs
                    /\ ret' = [report EXCEPT !.maybe_err = r.out.detail]
                    /\ UNCHANGED status
    /\ GlueFrame

\* Closing a buffer resource: <WebGpuBuffer as Resource>::close drops the
\* buffer through the table the resource holds.
WebGpuBuffer_close(rid) ==
    /\ status = "running"
    /\ resource_get(resource_table, rid, "webGPUBuffer") # None
    /\ LET buffer == resource_table[rid]
           r == table_use(buffer.core, "buffer_drop", hubs, buffer.id)
       IN  /\ hubs' = r.hubs
           /\ resource_table' = resource_remove(resource_table, rid)
           /\ ret' = [NoOp EXCEPT !.op = "close", !.rid = rid, !.buffer = Some(buffer.id)]
    /\ UNCHANGED status
    /\ GlueFrame

\* The resource ids an op may be given: those handed out and one never handed out.
RidArgs == 1..(Len(resource_table) + 1)

NextGlue ==
    \/ \E device_rid \in RidArgs, size \in SizeArgs, usage \in UsageArgs,
          mapped_at_creation \in BOOLEAN :
          op_webgpu_create_buffer(device_rid, size, usage, mapped_at_creation)
    \/ \E buffer_rid \in RidArgs, buf_fits \in BOOLEAN :
          op_webgpu_buffer_get_mapped_range(buffer_rid, buf_fits)
    \/ \E buffer_rid \in RidArgs, mapped_rid \in RidArgs, buf \in UnmapBufArgs :
          op_webgpu_buffer_unmap(buffer_rid, mapped_rid, buf)
    \/ \E rid \in RidArgs : WebGpuBuffer_close(rid)

SpecGlue == InitGlue /\ [][NextGlue]_vars

(***************************************************************************)
(* op_webgpu_buffer_get_map_async. The op is a future: between the steps   *)
(* of the two futures it joins, other ops run on the same OpState.         *)
(***************************************************************************)
\* Most device polls of one call that are counted.
MaxPolls == 2

\* The `mode` arguments: read, write, and a number that is neither.
ModeArgs == {1, 2, 3}

\* match mode { 1 => HostMap::Read, 2 => HostMap::Write, _ => unreachable!() }
host_map(mode) ==
    IF mode = 1 THEN Some("Read") ELSE IF mode = 2 THEN Some("Write") ELSE None

\* What core.device_poll(instance, device_id, Maintain::wait()) can do: call
\* no map callback, call the callback of this op with Ok or with an error,
\* drop it uncalled, or return an error itself.
DevicePollOutcomes == {"idle", "Ok", "Err", "dropped", "failed"}

MapAsyncFrame == UNCHANGED <<context_vars, assigned_error, global_vars>>

\* The op is called and runs up to its first await: the lookups, the call of
\* buffer_map_async through the buffer's table, and the early return when
\* the core rejects the request.
op_webgpu_buffer_get_map_async(buffer_rid, device_rid, mode) ==
    /\ status = "running"
    /\ map_async.at # "joined"
    /\ LET buffer == resource_get(resource_table, buffer_rid, "webGPUBuffer")
           device == resource_get(resource_table, device_rid, "webGPUDevice")
           report == [NoOp EXCEPT !.op = "op_webgpu_buffer_get_map_async",
                                  !.rid = buffer_rid, !.device_ok = device # None,
                                  !.buffer = IF buffer = None THEN None
                                             ELSE Some(Unwrap(buffer).id)]
       IN  IF buffer = None \/ device = None
           THEN /\ ret' = [report EXCEPT !.outcome = "Err", !.err = "BadResource"]
                /\ map_async' = [NoMapAsync EXCEPT !.at = "returned"]
                /\ UNCHANGED <<hubs, status>>
           ELSE IF host_map(mode) = None
           THEN /\ ret' = [report EXCEPT !.outcome = "panic"]
                /\ map_async' = [NoMapAsync EXCEPT !.at = "returned"]
                /\ status' = "panicked"
                /\ UNCHANGED hubs
           ELSE LET r == table_use(Unwrap(buffer).core, "buffer_map_async", hubs,
                                   Unwrap(buffer).id)
                IN  /\ hubs' = r.hubs
                    /\ UNCHANGED status
                    /\ IF r.out.tag = "Err"
                       THEN /\ ret' = [report EXCEPT !.maybe_err = r.out.detail]
                            /\ map_async' = [NoMapAsync EXCEPT !.at = "returned",
                                                             !.buffer = Unwrap(buffer).id]
                       ELSE /\ ret' = [report EXCEPT !.outcome = "Pending"]
                            /\ map_async' = [NoMapAsync EXCEPT !.at = "joined",
                                                             !.channel = "pending",
                                                             !.buffer = Unwrap(buffer).id]
    /\ UNCHANGED resource_table
    /\ MapAsyncFrame

\* Faulty variant of poll_loop_continues: the flag is not looked at.
poll_loop_continues_always(done) == TRUE

\* while !*done.borrow()
poll_loop_continues(done) == ~done

\* device_poll_fut is polled and leaves its loop.
PollFutFinish ==
    /\ status = "running"
    /\ map_async.at = "joined"
    /\ map_async.poll_fut = "ready"
    /\ ~poll_loop_continues(map_async.done)
    /\ map_async' = [map_async EXCEPT !.poll_fut = "finished"]
    /\ UNCHANGED <<hubs, resource_table, status, ret>>
    /\ MapAsyncFrame

\* device_poll_fut is polled and runs one iteration of its loop, up to the
\* sleep: the device is polled and the result unwrapped. A map callback the
\* poll calls sends its status into the channel.
PollFutPoll(outcome) ==
    /\ status = "running"
    /\ map_async.at = "joined"
    /\ map_async.poll_fut = "ready"
    /\ poll_loop_continues(map_async.done)
    /\ outcome \in {"Ok", "Err", "dropped"} => map_async.channel = "pending"
    /\ LET polls == IF map_async.polls < MaxPolls THEN map_async.polls + 1
                    ELSE map_async.polls
           b == map_async.buffer
       IN  IF outcome = "failed"
           THEN /\ status' = "panicked"
                /\ map_async' = [map_async EXCEPT !.polls = polls]
                /\ ret' = [NoOp EXCEPT !.op = "op_webgpu_buffer_get_map_async",
                                       !.outcome = "panic", !.buffer = Some(b)]
                /\ UNCHANGED hubs
           ELSE /\ map_async' = [map_async EXCEPT !.poll_fut = "sleeping",
                                                  !.polls = polls,
                                                  !.channel = IF outcome = "idle" THEN @
                                                              ELSE outcome]
                /\ hubs' = IF outcome = "Ok" /\ hubs[b.backend][b.index].state = "Valid"
                           THEN [hubs EXCEPT ![b.backend][b.index].mapped = TRUE]
                           ELSE hubs
                /\ UNCHANGED <<status, ret>>
    /\ UNCHANGED resource_table
    /\ MapAsyncFrame

\* tokio::time::sleep(Duration::from_millis(10)) has elapsed.
TimerFires ==
    /\ status = "running"
    /\ map_async.at = "joined"
    /\ map_async.poll_fut = "sleeping"
    /\ map_async' = [map_async EXCEPT !.poll_fut = "ready"]
    /\ UNCHANGED <<hubs, resource_table, status, ret>>
    /\ MapAsyncFrame

\* receiver_fut is polled with something in the channel: on an Ok status it
\* sets `done`; on an error status, or when the sender was dropped, it fails,
\* try_join! fails with it and the op returns the error.
ReceiverFut ==
    /\ status = "running"
    /\ map_async.at = "joined"
    /\ map_async.receiver_fut = "waiting"
    /\ map_async.channel \in {"Ok", "Err", "dropped"}
    /\ IF map_async.channel = "Ok"
       THEN /\ map_async' = [map_async EXCEPT !.receiver_fut = "finished", !.done = TRUE]
            /\ UNCHANGED ret
       ELSE /\ map_async' = [map_async EXCEPT !.receiver_fut = "failed", !.at = "returned"]
            /\ ret' = [NoOp EXCEPT !.op = "op_webgpu_buffer_get_map_async",
                                   !.outcome = "Err",
                                   !.err = IF map_async.channel = "Err"
                                           THEN "BufferAccessError" ELSE "RecvError",
                                   !.buffer = Some(map_async.buffer)]
    /\ UNCHANGED <<hubs, resource_table, status>>
    /\ MapAsyncFrame

\* Both futures have finished: try_join! is done and the op returns
\* WebGpuResult::empty().
JoinReturn ==
    /\ status = "running"
    /\ map_async.at = "joined"
    /\ map_async.poll_fut = "finished"
    /\ map_async.receiver_fut = "finished"
    /\ map_async' = [map_async EXCEPT !.at = "returned"]
    /\ ret' = [NoOp EXCEPT !.op = "op_webgpu_buffer_get_map_async",
                           !.buffer = Some(map_async.buffer)]
    /\ UNCHANGED <<hubs, resource_table, status>>
    /\ MapAsyncFrame

\* Calls of the op, the steps of its futures, and buffers being created.
NextMapAsync ==
    \/ \E buffer_rid \in RidArgs, device_rid \in RidArgs, mode \in ModeArgs :
          op_webgpu_buffer_get_map_async(buffer_rid, device_rid, mode)
    \/ PollFutFinish
    \/ \E outcome \in DevicePollOutcomes : PollFutPoll(outcome)
    \/ TimerFires
    \/ ReceiverFut
    \/ JoinReturn
    \/ \E device_rid \in RidArgs, size \in SizeArgs, mapped_at_creation \in BOOLEAN :
          op_webgpu_create_buffer(device_rid, size, 1, mapped_at_creation)

SpecMapAsync == InitGlue /\ [][NextMapAsync]_vars

\* The runtime polls a future that has been woken, and the timer of a sleep
\* fires.
LiveMapAsync ==
    /\ SpecMapAsync
    /\ WF_vars(PollFutFinish)
    /\ WF_vars(\E outcome \in DevicePollOutcomes : PollFutPoll(outcome))
    /\ WF_vars(TimerFires)
    /\ WF_vars(ReceiverFut)
    /\ WF_vars(JoinReturn)

(***************************************************************************)
(* Global: the capability objects, the surface registry, Drop              *)
(***************************************************************************)
\* Most elements of the surface registry.
MaxSurfaces == 2
\* Most references to one surface, or to one capability object, besides the
\* one its container holds.
MaxOwners == 1
\* Most device handles held at a time.
MaxHandles == 1

\* The index part of the identifiers passed to Global::backend,
\* Global::backend_arc and Backend::device_by_id.
IdIndices == {1, 2}

\* An element of the registry's map: Element::Occupied(Arc<Surface>, _) or
\* Element::Vacant; the strong count of the Arc; how often the surface was
\* passed to Instance::destroy_surface; whether the element is still in the map.
SurfaceElement(slot, strong, destroyed, in_map) ==
    [slot |-> slot, strong |-> strong, destroyed |-> destroyed, in_map |-> in_map]

\* What a call on the Global reports: its name, the identifier or the
\* registry index it was given, the backend type parameter it was given,
\* and the capability object or handle that came back.
NoGlobalCall == [op |-> "new", id |-> Id("Empty", 0), api |-> "", out |-> None]

\* A Global of any build, with an Instance that has any of the build's
\* backends enabled, and a device in the hub of every native backend (the
\* Instance has no Empty backend to get a device from).
InitGlobal ==
    /\ ContextNew
    /\ ~debug_assertions
    /\ ret = NoGlobalCall
    /\ \E bld \in Builds : \E enabled \in SUBSET bld :
          /\ Global_new(bld, enabled)
          /\ hubs = [b \in backends_fields(bld) |->
                       IF b \in bld THEN <<Record("device", "Valid", FALSE)>> ELSE <<>>]
    /\ assigned_error = {}
    /\ map_async = NoMapAsync
    /\ resource_table = <<>>

\* The Global can be called: it is not being dropped and nothing has panicked.
Alive == status = "running" /\ pc.at = "alive"

GlobalFrame ==
    UNCHANGED <<context_vars, assigned_error, resource_table, build, held, global_report,
                map_async>>

\* Faulty variant of global_backend: the gles arm hands out the Vulkan object.
global_backend_gl_as_vulkan(bld, tag) ==
    IF tag \in bld THEN Some(IF tag = "Gl" /\ "Vulkan" \in bld THEN "Vulkan" ELSE tag)
    ELSE None

\* The match of Global::backend and Global::backend_arc: the field of the
\* Backends container for the identifier's tag, None where the match panics.
global_backend(bld, tag) == IF tag \in bld THEN Some(tag) ELSE None

\* Global::backend
GlobalBackend(id) ==
    /\ Alive
    /\ LET object == global_backend(build, id.backend)
       IN  /\ ret' = [NoGlobalCall EXCEPT !.op = "backend", !.id = id, !.out = object]
           /\ status' = IF object = None THEN "panicked" ELSE status
    /\ UNCHANGED <<hubs, backends, instance, surfaces, pc, handles>>
    /\ GlobalFrame

\* Global::backend_arc: the Arc of the field is cloned.
GlobalBackendArc(id) ==
    /\ Alive
    /\ LET object == global_backend(build, id.backend)
       IN  /\ ret' = [NoGlobalCall EXCEPT !.op = "backend_arc", !.id = id, !.out = object]
           /\ IF object = None
              THEN status' = "panicked" /\ UNCHANGED backends
              ELSE /\ backends[Unwrap(object)] <= MaxOwners
                   /\ backends' = [backends EXCEPT ![Unwrap(object)] = @ + 1]
                   /\ UNCHANGED status
    /\ UNCHANGED <<hubs, instance, surfaces, pc, handles>>
    /\ GlobalFrame

\* The references to a capability object that callers hold.
ArcClones(b) == backends[b] - (IF pc.at = "dropped" THEN 0 ELSE 1)

\* A caller drops an Arc<dyn Backend> it got from backend_arc.
BackendArcDrop(b) ==
    /\ ArcClones(b) > 0
    /\ backends' = [backends EXCEPT ![b] = @ - 1]
    /\ ret' = [NoGlobalCall EXCEPT !.op = "arc_drop", !.api = b]
    /\ UNCHANGED <<hubs, instance, surfaces, pc, handles, status>>
    /\ GlobalFrame

\* A device handle: the hub and index of the device, the backend its
\* Device::backend() reports, and the type the handle has ("dyn" for
\* Arc<dyn Device>, A for Arc<Device<A>>).
Handle(b, index, type) == [backend |-> b, index |-> index, type |-> type]

\* hub.devices.get(id): the device stored at the identifier's index.
devices_get(hub, id) ==
    IF id.index \in 1..Len(hub) /\ hub[id.index].kind = "device" /\ hub[id.index].state = "Valid"
    THEN Some(id.index) ELSE None

\* <BackendDetails<A> as Backend>::device_by_id on the capability object of b.
DeviceById(b, id) ==
    /\ Alive
    /\ b \in DOMAIN backends
    /\ LET device == devices_get(hubs[b], id)
       IN  /\ ret' = [NoGlobalCall EXCEPT !.op = "device_by_id", !.id = id, !.api = b,
                                          !.out = device]
           /\ IF device = None
              THEN status' = "panicked" /\ UNCHANGED handles
              ELSE /\ Len(handles) < MaxHandles
                   /\ handles' = Append(handles, Handle(b, Unwrap(device), "dyn"))
                   /\ UNCHANGED status
    /\ UNCHANGED <<hubs, backends, instance, surfaces, pc>>
    /\ GlobalFrame

\* The backend types a downcast can name: hal::api::Empty and the native ones.
HalApis == {"Empty"} \cup build

\* Faulty variant of downcast_arc_checked: the assertion is missing.
downcast_arc_unchecked(handle, A) == TRUE

\* The assertion of downcast_arc: self.backend() is A::VARIANT.
downcast_arc_checked(handle, A) == handle.backend = A

\* <dyn Device as DowncastArc>::downcast_arc::<A> on the h-th handle held:
\* the same Arc, with the type Device<A>.
DowncastArc(h, A) ==
    /\ Alive
    /\ h \in 1..Len(handles)
    /\ handles[h].type = "dyn"
    /\ ret' = [NoGlobalCall EXCEPT !.op = "downcast_arc", !.api = A,
                                   !.id = Id(handles[h].backend, handles[h].index),
                                   !.out = Some(h)]
    /\ IF downcast_arc_checked(handles[h], A)
       THEN /\ handles' = [handles EXCEPT ![h].type = A]
            /\ UNCHANGED status
       ELSE /\ status' = "panicked"
            /\ UNCHANGED handles
    /\ UNCHANGED <<hubs, backends, instance, surfaces, pc>>
    /\ GlobalFrame

\* A caller drops a device handle.
HandleDrop(h) ==
    /\ h \in 1..Len(handles)
    /\ handles' = SubSeq(handles, 1, h - 1) \o SubSeq(handles, h + 1, Len(handles))
    /\ ret' = [NoGlobalCall EXCEPT !.op = "handle_drop"]
    /\ UNCHANGED <<hubs, backends, instance, surfaces, pc, status>>
    /\ GlobalFrame

\* Registering a surface (Global::instance_create_surface): a new Occupied
\* element whose Arc only the registry holds.
RegisterSurface ==
    /\ Alive
    /\ Len(surfaces) < MaxSurfaces
    /\ surfaces' = Append(surfaces, SurfaceElement("Occupied", 1, 0, TRUE))
    /\ ret' = [NoGlobalCall EXCEPT !.op = "register_surface", !.out = Some(Len(surfaces) + 1)]
    /\ UNCHANGED <<hubs, backends, instance, pc, handles, status>>
    /\ GlobalFrame

\* Registry::get on a surface: another owner of its Arc.
SurfaceGet(i) ==
    /\ Alive
    /\ i \in 1..Len(surfaces)
    /\ surfaces[i].slot = "Occupied"
    /\ surfaces[i].strong <= MaxOwners
    /\ surfaces' = [surfaces EXCEPT ![i].strong = @ + 1]
    /\ ret' = [NoGlobalCall EXCEPT !.op = "surface_get", !.out = Some(i)]
    /\ UNCHANGED <<hubs, backends, instance, pc, handles, status>>
    /\ GlobalFrame

\* The references to a surface that are not the registry's.
SurfaceOwners(e) == e.strong - (IF e.in_map /\ e.slot = "Occupied" THEN 1 ELSE 0)

\* An owner other than the registry drops its Arc<Surface>; it needs no
\* access to the Global for that.
SurfaceRelease(i) ==
    /\ i \in 1..Len(surfaces)
    /\ SurfaceOwners(surfaces[i]) > 0
    /\ surfaces' = [surfaces EXCEPT ![i].strong = @ - 1]
    /\ ret' = [NoGlobalCall EXCEPT !.op = "surface_release", !.out = Some(i)]
    /\ UNCHANGED <<hubs, backends, instance, pc, handles, status>>
    /\ GlobalFrame

\* Global::surface_drop on a surface only the registry holds: the element
\* becomes Vacant and the surface is destroyed through the instance.
SurfaceDrop(i) ==
    /\ Alive
    /\ i \in 1..Len(surfaces)
    /\ surfaces[i].slot = "Occupied"
    /\ surfaces[i].strong = 1
    /\ surfaces' = [surfaces EXCEPT ![i] = SurfaceElement("Vacant", 0, @.destroyed + 1, TRUE)]
    /\ ret' = [NoGlobalCall EXCEPT !.op = "surface_drop", !.out = Some(i)]
    /\ UNCHANGED <<hubs, backends, instance, pc, handles, status>>
    /\ GlobalFrame

\* Drop for Global begins: the write lock on the surfaces is taken.
DropBegin ==
    /\ Alive
    /\ pc' = [pc EXCEPT !.at = "drop"]
    /\ ret' = [NoGlobalCall EXCEPT !.op = "drop"]
    /\ UNCHANGED <<hubs, backends, instance, surfaces, handles, status>>
    /\ GlobalFrame

\* The cfg blocks of Drop::drop that clear a hub, in source order.
HubOrder == <<"Vulkan", "Dx12", "Gl">>

\* The blocks of Drop::drop that are compiled in and not yet executed.
PendingHubs(bld, cleared) == {k \in DOMAIN HubOrder : HubOrder[k] \in bld \ cleared}

Min(S) == CHOOSE x \in S : \A y \in S : x <= y

\* self.backends.<field>.hub.clear(&surfaces_locked, true)
DropClearHub ==
    /\ status = "running"
    /\ pc.at = "drop"
    /\ PendingHubs(build, pc.cleared) # {}
    /\ LET b == HubOrder[Min(PendingHubs(build, pc.cleared))]
       IN  /\ hubs' = [hubs EXCEPT ![b] = <<>>]
           /\ pc' = [pc EXCEPT !.cleared = @ \cup {b}]
           /\ ret' = [NoGlobalCall EXCEPT !.op = "hub_clear", !.api = b]
    /\ UNCHANGED <<backends, instance, surfaces, handles, status>>
    /\ GlobalFrame

\* The elements drain(..) has not yielded yet.
InMap == {i \in 1..Len(surfaces) : surfaces[i].in_map}

\* Faulty variant of drain_done: the loop is left after its first iteration.
drain_done_after_first(ss) == \E i \in DOMAIN ss : ~ss[i].in_map

\* The loop over drain(..) ends when every element has been yielded.
drain_done(ss) == \A i \in DOMAIN ss : ~ss[i].in_map

\* Faulty variant of drain_reached: the surfaces are drained first.
drain_reached_before_hubs(bld, cleared) == TRUE

\* Drop::drop reaches the loop over the surfaces once every block before it
\* has been executed.
drain_reached(bld, cleared) == PendingHubs(bld, cleared) = {}

\* Faulty variant of into_inner: the surface is taken whoever else holds it.
into_inner_shared(strong) == TRUE

\* Arc::into_inner yields the surface when this is the only reference.
into_inner(strong) == strong = 1

\* Faulty variant of unwind_surfaces: the surfaces the loop did not reach are
\* destroyed through the instance on the way out.
unwind_surfaces_destroying(ss) ==
    [i \in DOMAIN ss |->
        IF ss[i].in_map
        THEN [ss[i] EXCEPT !.in_map = FALSE,
                           !.strong = IF ss[i].slot = "Occupied" THEN @ - 1 ELSE @,
                           !.destroyed = IF ss[i].slot = "Occupied" THEN @ + 1 ELSE @]
        ELSE ss[i]]

\* What unwinding out of Drop::drop does after the panic: the Drain drops the
\* elements it has not yielded, and the fields of the Global are dropped.
unwind_surfaces(ss) ==
    [i \in DOMAIN ss |->
        IF ss[i].in_map
        THEN [ss[i] EXCEPT !.in_map = FALSE,
                           !.strong = IF ss[i].slot = "Occupied" THEN @ - 1 ELSE @]
        ELSE ss[i]]

\* One iteration of `for element in surfaces_locked.map.drain(..)`. A build
\* with panic = "abort" stops at the panic; otherwise the stack unwinds.
DropDrainSurface ==
    /\ status = "running"
    /\ pc.at = "drop"
    /\ drain_reached(build, pc.cleared)
    /\ InMap # {}
    /\ LET i == Min(InMap)
           e == surfaces[i]
           yielded == [surfaces EXCEPT ![i].in_map = FALSE]
       IN  /\ ret' = [NoGlobalCall EXCEPT !.op = "drain_surface", !.out = Some(i)]
           /\ IF e.slot # "Occupied"
              THEN /\ surfaces' = yielded
                   /\ UNCHANGED <<status, pc, instance, backends>>
              ELSE IF into_inner(e.strong)
              THEN \* self.instance.destroy_surface(surface)
                   /\ surfaces' = [yielded EXCEPT ![i].strong = 0,
                                                  ![i].destroyed = @ + 1]
                   /\ UNCHANGED <<status, pc, instance, backends>>
              ELSE /\ status' = "panicked"
                   /\ \E unwind \in BOOLEAN :
                         IF unwind
                         THEN /\ surfaces' =
                                    unwind_surfaces([yielded EXCEPT ![i].strong = @ - 1])
                              /\ instance' = [instance EXCEPT !.live = FALSE]
                              /\ backends' = [b \in DOMAIN backends |-> backends[b] - 1]
                              /\ pc' = [pc EXCEPT !.at = "dropped"]
                         ELSE /\ surfaces' = [yielded EXCEPT ![i].strong = @ - 1]
                              /\ UNCHANGED <<pc, instance, backends>>
    /\ UNCHANGED <<hubs, handles>>
    /\ GlobalFrame

\* Drop::drop returns: the lock is released and the fields are dropped in
\* the order of their declaration, `instance` first.
DropReturn ==
    /\ status = "running"
    /\ pc.at = "drop"
    /\ drain_reached(build, pc.cleared)
    /\ drain_done(surfaces)
    /\ pc' = [pc EXCEPT !.at = "drop_instance"]
    /\ ret' = [NoGlobalCall EXCEPT !.op = "drop_return"]
    /\ UNCHANGED <<hubs, backends, instance, surfaces, handles, status>>
    /\ GlobalFrame

DropFieldInstance ==
    /\ pc.at = "drop_instance"
    /\ instance' = [instance EXCEPT !.live = FALSE]
    /\ pc' = [pc EXCEPT !.at = "drop_surfaces"]
    /\ ret' = [NoGlobalCall EXCEPT !.op = "drop_field_instance"]
    /\ UNCHANGED <<hubs, backends, surfaces, handles, status>>
    /\ GlobalFrame

DropFieldSurfaces ==
    /\ pc.at = "drop_surfaces"
    /\ pc' = [pc EXCEPT !.at = "drop_backends"]
    /\ ret' = [NoGlobalCall EXCEPT !.op = "drop_field_surfaces"]
    /\ UNCHANGED <<hubs, backends, instance, surfaces, handles, status>>
    /\ GlobalFrame

\* The Backends container drops its Arcs; a capability object nobody else
\* holds goes, and its hub with it.
DropFieldBackends ==
    /\ pc.at = "drop_backends"
    /\ backends' = [b \in DOMAIN backends |-> backends[b] - 1]
    /\ hubs' = [b \in DOMAIN hubs |-> IF backends[b] = 1 THEN <<>> ELSE hubs[b]]
    /\ pc' = [pc EXCEPT !.at = "dropped"]
    /\ ret' = [NoGlobalCall EXCEPT !.op = "drop_field_backends"]
    /\ UNCHANGED <<instance, surfaces, handles, status>>
    /\ GlobalFrame

\* The identifiers Global::backend and Global::backend_arc are given.
IdArgs == {Id(b, k) : b \in Backends, k \in IdIndices}

\* The capability objects and the device handles of a Global in use.
NextGlobal ==
    \/ \E id \in IdArgs : GlobalBackend(id)
    \/ \E id \in IdArgs : GlobalBackendArc(id)
    \/ \E b \in DOMAIN backends : BackendArcDrop(b)
    \/ \E b \in DOMAIN backends, id \in IdArgs : DeviceById(b, id)
    \/ \E h \in 1..Len(handles), A \in HalApis : DowncastArc(h, A)
    \/ \E h \in 1..Len(handles) : HandleDrop(h)

SpecGlobal == InitGlobal /\ [][NextGlobal]_vars

\* The surfaces of a Global, the references to its capability objects, and
\* its teardown.
NextTeardown ==
    \/ \E id \in IdArgs : GlobalBackendArc(id)
    \/ \E b \in DOMAIN backends : BackendArcDrop(b)
    \/ RegisterSurface
    \/ \E i \in 1..Len(surfaces) : SurfaceGet(i)
    \/ \E i \in 1..Len(surfaces) : SurfaceRelease(i)
    \/ \E i \in 1..Len(surfaces) : SurfaceDrop(i)
    \/ DropBegin
    \/ DropClearHub
    \/ DropDrainSurface
    \/ DropReturn
    \/ DropFieldInstance
    \/ DropFieldSurfaces
    \/ DropFieldBackends

SpecTeardown == InitGlobal /\ [][NextTeardown]_vars

(***************************************************************************)
(* Global::generate_report. The function takes &self and the registries    *)
(* lock themselves, so other calls on the Global run between the fields of *)
(* the GlobalReport it builds.                                             *)
(***************************************************************************)
\* Registry::generate_report on the surfaces: the occupied elements.
registry_generate_report(ss) ==
    Cardinality({i \in DOMAIN ss : ss[i].slot = "Occupied" /\ ss[i].in_map})

\* Hub::generate_report: the records of the hub that are in use.
hub_generate_report(hub) == Cardinality({k \in DOMAIN hub : hub[k].state # "Vacant"})

\* Faulty variant of generate_report_hub: the instance is not consulted.
generate_report_hub_always(inst, hs, b) == Some(hub_generate_report(hs[b]))

\* One cfg'd field of the GlobalReport: the report of the hub when the
\* instance has the backend, None otherwise.
generate_report_hub(inst, hs, b) ==
    IF b \in inst.enabled THEN Some(hub_generate_report(hs[b])) ELSE None

ReportFrame ==
    UNCHANGED <<context_vars, assigned_error, resource_table, build, held, hubs,
                backends, instance, surfaces, pc, handles, status, map_async>>

\* generate_report is called: the field `surfaces` is evaluated.
ReportSurfaces ==
    /\ Alive
    /\ global_report.at # "running"
    /\ global_report' = [at |-> "running", surfaces |-> registry_generate_report(surfaces),
                  hubs |-> <<>>]
    /\ UNCHANGED ret
    /\ ReportFrame

\* The next cfg'd field is evaluated, in the order of the struct expression.
ReportHub ==
    /\ status = "running"
    /\ global_report.at = "running"
    /\ PendingHubs(build, DOMAIN global_report.hubs) # {}
    /\ LET b == HubOrder[Min(PendingHubs(build, DOMAIN global_report.hubs))]
       IN  global_report' = [global_report EXCEPT !.hubs =
                        [x \in DOMAIN global_report.hubs \cup {b} |->
                            IF x = b THEN generate_report_hub(instance, hubs, b)
                                     ELSE global_report.hubs[x]]]
    /\ UNCHANGED ret
    /\ ReportFrame

\* The GlobalReport is returned.
ReportReturn ==
    /\ status = "running"
    /\ global_report.at = "running"
    /\ PendingHubs(build, DOMAIN global_report.hubs) = {}
    /\ global_report' = [global_report EXCEPT !.at = "done"]
    /\ ret' = [NoGlobalCall EXCEPT !.op = "generate_report"]
    /\ ReportFrame

\* Most buffers created while reports are generated.
MaxBuffers == 1

\* Global::device_create_buffer::<A> on the device of backend b.
GlobalCreateBuffer(b, desc) ==
    /\ Alive
    /\ b \in build
    /\ IdsAllocated < Cardinality(build) + MaxBuffers
    /\ LET r == global_create("device_create_buffer", hubs[b], 1, desc)
       IN  /\ hubs' = [hubs EXCEPT ![b] = r.hub]
           /\ ret' = [NoGlobalCall EXCEPT !.op = "device_create_buffer", !.api = b,
                                          !.id = Id(b, Len(hubs[b]) + 1)]
    /\ UNCHANGED <<backends, instance, surfaces, pc, handles, status>>
    /\ GlobalFrame

\* Global::buffer_drop::<A>
GlobalBufferDrop(id) ==
    /\ Alive
    /\ hubs[id.backend][id.index].kind = "buffer"
    /\ LET r == global_use("buffer_drop", hubs[id.backend], id.index)
       IN  /\ hubs' = [hubs EXCEPT ![id.backend] = r.hub]
           /\ ret' = [NoGlobalCall EXCEPT !.op = "buffer_drop", !.api = id.backend,
                                          !.id = id]
    /\ UNCHANGED <<backends, instance, surfaces, pc, handles, status>>
    /\ GlobalFrame

\* A Global in use while reports of it are generated.
NextReport ==
    \/ ReportSurfaces
    \/ ReportHub
    \/ ReportReturn
    \/ RegisterSurface
    \/ \E i \in 1..Len(surfaces) : SurfaceDrop(i)
    \/ \E b \in build : GlobalCreateBuffer(b, [ok |-> TRUE, mapped |-> FALSE])
    \/ \E id \in LiveIds : GlobalBufferDrop(id)

SpecReport == InitGlobal /\ [][NextReport]_vars

(***************************************************************************)
(* Properties of the Context.                                              *)
(***************************************************************************)

\* C1: try_block never returns Ok while a diagnostic is pending: whenever
\* try_block has just returned Ok, is_empty() is true.
C1_TryBlockNeverOkWhilePending ==
    (ret.op = "try_block" /\ ret.outcome = "returned" /\ ret.value.tag = "Ok")
        => is_empty(diagnostics)

\* The closure returned Ok with a diagnostic pending and try_block returned
\* the failure outcome.
C1_Witness ==
    /\ ret.op = "try_block"
    /\ ret.outcome = "returned"
    /\ Unwrap(ret.arg).tag = "Ok"
    /\ ret.value = ErrMarker
    /\ ~is_empty(diagnostics)

\* C2: a leave given the token of the enter that pushed the top step restores
\* the trace (steps and indices) that was current when that enter was called,
\* whatever nested enter/leave pairs, index calls and captures ran in between.
C2_NestedLeaveRestoresTrace ==
    [][\A t \in tokens :
          (ret'.op = "leave" /\ ret'.serial = t.serial /\ ret'.matched)
              => (ret'.outcome = "returned" /\ trace' = t.snapshot)]_vars

\* A matching leave returned to a non-empty, indexed outer trace after a
\* capture inside the nested field.
C2_Witness ==
    /\ ret.op = "leave"
    /\ ret.matched
    /\ ret.outcome = "returned"
    /\ Len(trace) = 1
    /\ trace[1].index # None
    /\ ~is_empty(diagnostics)

\* C3 as stated: no leave given a token that was not issued by the enter that
\* pushed the top step ever returns normally.
C3_MismatchedLeaveNeverReturns ==
    ~(ret.op = "leave" /\ ~ret.matched /\ ret.outcome = "returned")

\* C3 amended: in a build with debug assertions, a leave given a token that was
\* not issued by the enter that pushed the top step panics.
C3_MismatchedLeaveFatalInDebug ==
    (ret.op = "leave" /\ ~ret.matched /\ debug_assertions)
        => (ret.outcome = "panic" /\ status = "panicked")

\* A mismatched leave panicked in a build with debug assertions.
C3_Witness ==
    /\ ret.op = "leave"
    /\ ~ret.matched
    /\ debug_assertions
    /\ ret.outcome = "panic"
    /\ tokens # {}

\* C4: two diagnostics captured at the same trace reference one interned
\* trace, and the store of interned traces never holds the same trace twice,
\* whatever ran between the two captures.
C4_SameTraceInternedOnce ==
    /\ \A i, j \in 1..Len(diagnostics) :
          pending[i].at = pending[j].at => diagnostics[i].trace = diagnostics[j].trace
    /\ \A i, j \in 1..Len(traces) : traces[i] = traces[j] => i = j

\* C5: drain yields every diagnostic captured since the last drain exactly
\* once and in capture order, each with a path that is present; afterwards
\* is_empty() is true, and a drain right after a drain yields nothing.
C5_DrainYieldsAllPendingInOrder ==
    [][ret'.op = "drain" =>
          /\ Len(ret'.items) = Len(pending)
          /\ \A k \in 1..Len(pending) :
                /\ ret'.items[k].diagnostic = pending[k].diagnostic
                /\ ret'.items[k].path # None
          /\ is_empty(diagnostics')
          /\ (ret.op = "drain" => ret'.items = <<>>)]_vars

\* A drain yielded two different diagnostics.
C5_Witness ==
    /\ ret.op = "drain"
    /\ Len(ret.items) = 2
    /\ ret.items[1].diagnostic # ret.items[2].diagnostic
    /\ is_empty(diagnostics)

\* C6: drain pairs every diagnostic with the trace (steps and indices) that
\* was current when the diagnostic was captured.
C6_DrainedPathIsTraceAtCapture ==
    [][ret'.op = "drain" =>
          /\ Len(ret'.items) = Len(pending)
          /\ \A k \in 1..Len(pending) : ret'.items[k].path = Some(pending[k].at)]_vars

\* A drain yielded two diagnostics captured at different traces, after the
\* trace had changed again.
C6_Witness ==
    /\ ret.op = "drain"
    /\ Len(ret.items) = 2
    /\ ret.items[1].path # ret.items[2].path
    /\ ret.items[2].path # Some(trace)

\* C7 as stated: is_empty() is true exactly when no Diagnostic has been
\* captured since the Context was created.
C7_EmptyIffNeverCaptured ==
    is_empty(diagnostics) <=> ~ever_captured

\* C7 amended: is_empty() is true exactly when no Diagnostic has been captured
\* since the Context was created or last drained.
C7_EmptyIffNothingPending ==
    is_empty(diagnostics) <=> pending = <<>>

\* A drain has emptied a Context that had captured a diagnostic.
C7_Witness ==
    /\ ret.op = "drain"
    /\ ret.items # <<>>
    /\ ever_captured
    /\ is_empty(diagnostics)

\* C8: report(e) and result(Err(e)) append exactly one record holding e and
\* return the Error marker; result(Ok(v)) returns Ok(v) and leaves the
\* diagnostics, the trace and the interned traces as they were.
C8_ResultAndReportCaptureOnce ==
    [][/\ (ret'.op = "report" \/ (ret'.op = "result" /\ Unwrap(ret'.arg).tag = "Err"))
            => /\ ret'.value = ErrMarker
               /\ Len(diagnostics') = Len(diagnostics) + 1
               /\ Front(diagnostics') = diagnostics
               /\ Last(diagnostics').diagnostic =
                     (IF ret'.op = "report" THEN Unwrap(ret'.arg)
                                            ELSE Unwrap(ret'.arg).error)
       /\ (ret'.op = "result" /\ Unwrap(ret'.arg).tag = "Ok")
            => /\ ret'.value = Ok(Unwrap(ret'.arg).value)
               /\ UNCHANGED <<diagnostics, trace, stored_trace, traces>>]_vars

\* result(Err(e)) returned the marker with the diagnostic captured.
C8_Witness ==
    /\ ret.op = "result"
    /\ Unwrap(ret.arg).tag = "Err"
    /\ ret.value = ErrMarker
    /\ ~is_empty(diagnostics)
    /\ Last(diagnostics).diagnostic = Unwrap(ret.arg).error

\* C22 as stated: when the closure returns Ok while diagnostics are pending,
\* try_block returns Err(Error) to its caller and does not abort.
C22_TryBlockRecovers ==
    (ret.op = "try_block" /\ Unwrap(ret.arg).tag = "Ok" /\ ~is_empty(diagnostics))
        => (ret.outcome = "returned" /\ ret.value = ErrMarker /\ status = "running")

\* C22 amended: when the closure returns Ok while diagnostics are pending,
\* try_block returns Err(Error) in a build without debug assertions, leaving
\* the diagnostics to be drained, and panics on its debug_assert! in a build
\* with debug assertions.
C22_TryBlockRecoversInRelease ==
    (ret.op = "try_block" /\ Unwrap(ret.arg).tag = "Ok" /\ ~is_empty(diagnostics))
        => IF debug_assertions
           THEN ret.outcome = "panic" /\ status = "panicked"
           ELSE /\ ret.outcome = "returned"
                /\ ret.value = ErrMarker
                /\ status = "running"
                /\ diagnostics = [k \in 1..Len(pending) |->
                                    [trace |-> diagnostics[k].trace,
                                     diagnostic |-> pending[k].diagnostic]]

\* In a build without debug assertions try_block has recovered from a
\* closure that returned Ok with two diagnostics pending.
C22_Witness ==
    /\ ~debug_assertions
    /\ ret.op = "try_block"
    /\ Unwrap(ret.arg).tag = "Ok"
    /\ ret.outcome = "returned"
    /\ ret.value = ErrMarker
    /\ status = "running"
    /\ Len(diagnostics) = 2

\* C23: index(i) returns having set the index of the top step of the trace
\* to i, whatever index it had; the depth of the trace, the field of the top
\* step, every other step, the captured diagnostics, the interned traces and
\* the outstanding Enter tokens are unchanged; an empty trace stays empty.
C23_IndexAnnotatesTopStepOnly ==
    [][ret'.op = "index" =>
          /\ ret'.outcome = "returned"
          /\ status' = status
          /\ Len(trace') = Len(trace)
          /\ \A k \in 1..(Len(trace) - 1) : trace'[k] = trace[k]
          /\ trace # <<>> =>
                Last(trace') = Field(Last(trace).field, Some(Unwrap(ret'.arg)))
          /\ trace = <<>> => trace' = <<>>
          /\ UNCHANGED <<diagnostics, traces, pending, tokens, owners>>]_vars

\* index(1) has overwritten the index 0 of the top step, below it a step with
\* its own index, and a diagnostic captured under index 0 is still pending.
C23_Witness ==
    /\ ret.op = "index"
    /\ ret.arg = Some(1)
    /\ Len(trace) = 2
    /\ trace[1].index = Some(0)
    /\ trace[2].index = Some(1)
    /\ Cardinality(tokens) = 2
    /\ \E k \in 1..Len(pending) :
          /\ Len(pending[k].at) = 2
          /\ pending[k].at[2].index = Some(0)

\* try_block returns Ok(v) exactly when the closure returned Ok(v) and no
\* diagnostic is pending.
TryBlockOkIffNothingPending ==
    [](ret.op = "try_block" /\ ret.outcome = "returned" =>
          /\ ret.value.tag = "Ok" <=>
                (Unwrap(ret.arg).tag = "Ok" /\ is_empty(diagnostics))
          /\ ret.value.tag = "Ok" => ret.value = Unwrap(ret.arg))

\* The closure of this try_block ran no operation on the Context and returned
\* Ok although diagnostics captured before the call are pending.
ReturnsOkOverEarlierDiagnostics ==
    /\ ret.op = "try_block_call"
    /\ ret'.op = "try_block"
    /\ Unwrap(ret'.arg).tag = "Ok"
    /\ ~is_empty(diagnostics)

\* C24 as stated: try_block returns Ok(v) exactly when the closure returned
\* Ok(v) and no diagnostic at all is pending; with diagnostics pending from
\* before the call, a closure that captures nothing and returns Ok(v) makes
\* try_block return the failure outcome.
C24_TryBlockJudgesWholeContext ==
    /\ TryBlockOkIffNothingPending
    /\ [][ReturnsOkOverEarlierDiagnostics =>
            (ret'.outcome = "returned" /\ ret'.value = ErrMarker)]_vars

\* C24 amended: as stated, except that in a build with debug assertions the
\* try_block panics on its debug_assert! instead of returning the failure
\* outcome.
C24_TryBlockJudgesWholeContextOrPanics ==
    /\ TryBlockOkIffNothingPending
    /\ [][ReturnsOkOverEarlierDiagnostics =>
            IF debug_assertions
            THEN ret'.outcome = "panic" /\ status' = "panicked"
            ELSE ret'.outcome = "returned" /\ ret'.value = ErrMarker]_vars

\* After a capture, a try_block call and the closure's return of Ok, nothing
\* else having run, try_block has returned the failure outcome.
C24_Witness ==
    /\ ret.op = "try_block"
    /\ ret.outcome = "returned"
    /\ Unwrap(ret.arg).tag = "Ok"
    /\ ret.value = ErrMarker
    /\ Len(diagnostics) = 1
    /\ ops = 3

(***************************************************************************)
(* Properties of errored identifiers.                                      *)
(***************************************************************************)

C10_InvalidUsageYieldsErroredBuffer ==
    /\ (ret.op = "op_webgpu_create_buffer" /\ ret.device_ok /\ from_bits(ret.usage) = None)
          => /\ ret.outcome = "Ok"
             /\ resource_get(resource_table, ret.rid, "webGPUBuffer") # None
             /\ ret.buffer # None
             /\ hubs[Unwrap(ret.buffer).backend][Unwrap(ret.buffer).index].state = "Error"
    /\ (/\ ret.op = "op_webgpu_buffer_get_mapped_range"
        /\ ret.buffer # None
        /\ hubs[Unwrap(ret.buffer).backend][Unwrap(ret.buffer).index].state = "Error")
          => ret.outcome = "Err"

\* C27: an op_webgpu_buffer_unmap that fails because buffer_rid names no
\* buffer in the resource table leaves the resource table as it was: the
\* mapped range named by mapped_rid is still in it.
C27_FailedUnmapKeepsMappedRange ==
    [][(/\ ret'.op = "op_webgpu_buffer_unmap"
        /\ ret'.outcome = "Err"
        /\ resource_get(resource_table, ret'.rid, "webGPUBufferMapped") # None)
          => /\ resource_table' = resource_table
             /\ resource_get(resource_table', ret'.rid, "webGPUBufferMapped") # None]_vars

(***************************************************************************)
(* Properties of Global teardown.                                          *)
(***************************************************************************)
\* A surface is passed to Instance::destroy_surface in this step of the teardown.
DestroysSurface ==
    /\ pc.at # "alive"
    /\ \E i \in DOMAIN surfaces : surfaces'[i].destroyed > surfaces[i].destroyed

\* The platform instance is dropped in this step.
DropsInstance == instance.live /\ ~instance'.live

\* Drop::drop has cleared the hub of every native backend of the build.
HubsCleared == build \subseteq pc.cleared /\ \A b \in build : hubs[b] = <<>>

C12_SurfacesDestroyedAfterInstance ==
    [][/\ DropsInstance => HubsCleared
       /\ DestroysSurface => ~instance.live]_vars

\* C12 amended: the registered surfaces are drained and destroyed through
\* the instance after the hubs are cleared and while the instance is live;
\* the instance is dropped only after the hubs are cleared and every element
\* of the registry has been drained.
C12_InstanceDroppedAfterSurfaces ==
    [][/\ DropsInstance => (HubsCleared /\ \A i \in DOMAIN surfaces : ~surfaces'[i].in_map)
       /\ DestroysSurface => (HubsCleared /\ instance.live)]_vars

\* The instance has just been dropped after two surfaces were destroyed
\* through it.
C12_Witness ==
    /\ pc.at = "drop_surfaces"
    /\ ~instance.live
    /\ Len(surfaces) = 2
    /\ \A i \in DOMAIN surfaces : surfaces[i].slot = "Occupied" /\ surfaces[i].destroyed = 1

\* C13: when the teardown reaches a surface that has another owner it
\* panics ("still in use") and does not pass that surface to
\* destroy_surface; no surface is ever destroyed twice; and when Drop::drop
\* returns, every surface that was registered has been destroyed.
C13_SurfaceInUseIsFatal ==
    /\ [](\A i \in DOMAIN surfaces : surfaces[i].destroyed <= 1)
    /\ []((pc.at \in {"drop_instance", "drop_surfaces", "drop_backends"})
            => \A i \in DOMAIN surfaces :
                  surfaces[i].slot = "Occupied"
                     => (surfaces[i].destroyed = 1 /\ surfaces[i].strong = 0))
    /\ [][(pc.at = "drop" /\ ret'.op = "drain_surface")
            => LET e == surfaces[Unwrap(ret'.out)]
               IN  (e.slot = "Occupied" /\ e.strong > 1)
                      => /\ status' = "panicked"
                         /\ surfaces'[Unwrap(ret'.out)].destroyed = e.destroyed]_vars

\* The teardown panicked at the second surface, which another owner still
\* holds, after it had destroyed the first.
C13_Witness ==
    /\ status = "panicked"
    /\ ret.op = "drain_surface"
    /\ ret.out = Some(2)
    /\ surfaces[1].destroyed = 1
    /\ surfaces[2].destroyed = 0
    /\ surfaces[2].strong >= 1

\* C26: when the teardown panics at a surface that is still in use, every
\* hub of the build has been cleared, the instance is live, every element
\* before that surface has been yielded by the drain and every surface
\* before it has been destroyed through the instance; neither that surface
\* nor any surface after it is passed to destroy_surface, in that step or
\* in any later one.
C26_TeardownStopsAtSurfaceInUse ==
    /\ [][(pc.at = "drop" /\ ret'.op = "drain_surface" /\ status' = "panicked")
            => LET i == Unwrap(ret'.out)
               IN  /\ HubsCleared
                   /\ instance.live
                   /\ \A k \in 1..(i - 1) :
                         /\ ~surfaces[k].in_map
                         /\ surfaces[k].destroyed = 1
                   /\ \A k \in i..Len(surfaces) :
                         /\ surfaces[k].in_map
                         /\ surfaces'[k].destroyed = surfaces[k].destroyed]_vars
    /\ [][(status = "panicked" /\ pc.at # "alive")
            => \A k \in DOMAIN surfaces : surfaces'[k].destroyed = surfaces[k].destroyed]_vars

\* The teardown cleared the hubs of a build with a native backend and then
\* panicked at the first surface; the second surface, which only the
\* registry held, has not been destroyed.
C26_Witness ==
    /\ status = "panicked"
    /\ ret.op = "drain_surface"
    /\ ret.out = Some(1)
    /\ build # {}
    /\ HubsCleared
    /\ Len(surfaces) = 2
    /\ surfaces[2].slot = "Occupied"
    /\ surfaces[2].destroyed = 0
    /\ surfaces[1].destroyed = 0

(***************************************************************************)
(* Properties of table lookup and serialization.                           *)
(***************************************************************************)
\* The backends compiled into the build: those with a field in Backends.
CompiledIn == backends_fields(build)

\* C14: for a backend compiled into the build, from_backend returns a table
\* whose backend field is that backend; all tables obtained for one backend
\* are the same instance; and two tables compare equal exactly when their
\* backends are the same.
C14_FromBackendYieldsTheSingleton ==
    /\ (ret.op = "from_backend" /\ ret.backend \in CompiledIn)
          => /\ status = "running"
             /\ ret.out # None
             /\ Unwrap(ret.out).backend = ret.backend
             /\ Unwrap(ret.out) \in held
    /\ \A t1 \in held, t2 \in held :
          /\ CoreTable_eq(t1, t2) <=> (t1.backend = t2.backend)
          /\ t1.backend = t2.backend => t1 = t2
    /\ ret.op = "eq"
          => (ret.equal <=> (ret.tables[1].backend = ret.tables[2].backend))

\* from_backend(Gl) returned the Gl table while the Vulkan table was held too.
C14_Witness ==
    /\ ret.op = "from_backend"
    /\ ret.backend = "Gl"
    /\ ret.out # None
    /\ \E t \in held : t.backend = "Vulkan"

\* C15: for a backend not compiled into the build, try_from_backend returns
\* None without panicking and from_backend panics; neither ever returns the
\* table of a backend other than the one asked for.
C15_UnsupportedBackendNoneOrFatal ==
    /\ (ret.op = "try_from_backend" /\ ret.backend \notin CompiledIn)
          => (ret.out = None /\ status = "running")
    /\ (ret.op = "from_backend" /\ ret.backend \notin CompiledIn)
          => (ret.out = None /\ status = "panicked")
    /\ (ret.op \in {"try_from_backend", "from_backend"} /\ ret.out # None)
          => Unwrap(ret.out).backend = ret.backend

\* from_backend panicked on Dx12 in a build that has other backends.
C15_Witness ==
    /\ ret.op = "from_backend"
    /\ ret.backend = "Dx12"
    /\ build # {}
    /\ status = "panicked"

\* C16: a table serializes to the tag of its backend and nothing else;
\* deserializing the serialized form of a table of this build yields that
\* same table; deserializing the tag of a backend that is not compiled in
\* fails with the 'Unsupported backend' error; and a deserialized table is
\* always the one of the backend the tag names.
C16_SerializeRoundTrip ==
    /\ ret.op = "serialize" => ret.tag = Backend_serialize(ret.tables[1].backend)
    /\ \A t \in held :
          LET r == CoreTable_deserialize(CoreTable_serialize(t))
          IN  r.out = Some(t) /\ CoreTable_eq(Unwrap(r.out), t)
    /\ ret.op = "deserialize"
          => LET backend == Backend_deserialize(ret.tag)
             IN  /\ (backend # None /\ Unwrap(backend) \notin CompiledIn)
                       => (ret.out = None /\ ret.err = "Unsupported backend")
                 /\ (backend # None /\ Unwrap(backend) \in CompiledIn)
                       => (ret.out # None /\ Unwrap(ret.out).backend = Unwrap(backend))
                 /\ ret.out # None => Backend_serialize(Unwrap(ret.out).backend) = ret.tag

\* The tag of Gl was deserialized to the Gl table, which had been looked up
\* before together with another one.
C16_Witness ==
    /\ ret.op = "deserialize"
    /\ ret.tag = 4
    /\ ret.out # None
    /\ Cardinality(held) >= 2

(***************************************************************************)
(* Properties of the table's entries.                                      *)
(***************************************************************************)
\* C17: a call of an entry through the table of backend B invokes B's
\* implementation of that name exactly once with the caller's arguments, the
\* caller gets that implementation's result, and the state changes as that
\* implementation changes it and not otherwise.
C17_EntryForwardsToImplementation ==
    [][/\ ret'.op \in IdEntries
          => LET r == global_call(ret'.table, ret'.op, hubs, ret'.id)
             IN  /\ ret'.calls = <<Call(ret'.table, ret'.op, <<ret'.id>>)>>
                 /\ ret'.out = r.out
                 /\ hubs' = r.hubs
                 /\ UNCHANGED <<assigned_error, resource_table, global_vars>>
       /\ ret'.op \in ErrorEntries
          => LET r == global_create_error(ret'.op, hubs[ret'.table])
             IN  /\ ret'.calls = <<Call(ret'.table, ret'.op, <<>>)>>
                 /\ ret'.out = r.out
                 /\ hubs' = [hubs EXCEPT ![ret'.table] = r.hub]
       /\ ret'.op \in CreateEntries
          => /\ Len(ret'.calls) = 1
             /\ ret'.calls[1].api = ret'.table
             /\ ret'.calls[1].name = ret'.op
             /\ LET r == global_create(ret'.op, hubs[ret'.table], ret'.calls[1].args[1],
                                       ret'.calls[1].args[2])
                IN  /\ ret'.out = r.out
                    /\ hubs' = [hubs EXCEPT ![ret'.table] = r.hub]]_vars

\* buffer_unmap through the Gl table unmapped a mapped Gl buffer.
C17_Witness ==
    /\ ret.op = "buffer_unmap"
    /\ ret.table = "Gl"
    /\ ret.out = Out("Ok", "")
    /\ ret.touched
    /\ ~hubs["Gl"][ret.id.index].mapped

C19_BackendResolvesTheTag ==
    [][ret'.op \in {"backend", "backend_arc"}
          => LET tag == ret'.id.backend
             IN  /\ tag \in build
                    => /\ ret'.out = Some(tag)
                       /\ status' = "running"
                       /\ backends' = IF ret'.op = "backend_arc"
                                      THEN [backends EXCEPT ![tag] = @ + 1]
                                      ELSE backends
                 /\ tag \notin backends_fields(build)
                    => /\ ret'.out = None
                       /\ status' = "panicked"
                       /\ backends' = backends]_vars

\* backend_arc resolved a Gl identifier to the Gl object, now shared, in a
\* build that also has Vulkan.
C19_Witness ==
    /\ ret.op = "backend_arc"
    /\ ret.id = Id("Gl", 2)
    /\ ret.out = Some("Gl")
    /\ backends["Gl"] = 2
    /\ "Vulkan" \in build

\* C25: Global::backend and Global::backend_arc given an identifier whose
\* tag is that of a capability object the Backends container holds, the
\* Empty one of a build without native backends included, return that
\* object and do not panic.
C25_EveryHeldBackendResolves ==
    (ret.op \in {"backend", "backend_arc"} /\ ret.id.backend \in DOMAIN backends)
        => (ret.out = Some(ret.id.backend) /\ status = "running")

\* C20: no handle ever has the device type of a backend other than the one
\* its device belongs to; a downcast to a backend type that is not the
\* handle's backend panics and leaves the handles as they are; otherwise
\* the same handle, to the same device, gets the type, and the number of
\* handles to the device does not change.
C20_DowncastChecksBackend ==
    /\ [](\A h \in DOMAIN handles : handles[h].type \in {"dyn", handles[h].backend})
    /\ [][ret'.op = "downcast_arc"
            => LET h == Unwrap(ret'.out)
               IN  IF handles[h].backend = ret'.api
                   THEN /\ status' = "running"
                        /\ handles' = [handles EXCEPT ![h].type = ret'.api]
                   ELSE /\ status' = "panicked"
                        /\ handles' = handles]_vars

\* A downcast of a handle to a Vulkan device to the Gl device type panicked.
C20_Witness ==
    /\ ret.op = "downcast_arc"
    /\ ret.api = "Gl"
    /\ ret.id.backend = "Vulkan"
    /\ status = "panicked"
    /\ handles[1].type = "dyn"

(***************************************************************************)
(* Properties of Global::generate_report.                                  *)
(***************************************************************************)
\* C21: no step of generate_report changes the surface registry, the hubs,
\* the instance or the capability objects; a call can begin in every state
\* of a live Global, between any two other operations; and the report it
\* returns has a hub report for a compiled-in backend exactly when the
\* instance has that backend enabled.
C21_GenerateReportReadsOnly ==
    /\ [][global_report' # global_report =>
            UNCHANGED <<surfaces, hubs, instance, backends, pc, handles, status>>]_vars
    /\ [](Alive /\ global_report.at # "running" => ENABLED ReportSurfaces)
    /\ [](global_report.at = "done" =>
            /\ DOMAIN global_report.hubs = build
            /\ \A b \in build : (global_report.hubs[b] # None) <=> (b \in instance.enabled))

\* A report has been returned that has the hub report of one backend and not
\* of another, and the surface registry has changed since it was begun.
C21_Witness ==
    /\ global_report.at = "done"
    /\ \E b \in build : global_report.hubs[b] # None
    /\ \E b \in build : global_report.hubs[b] = None
    /\ global_report.surfaces # registry_generate_report(surfaces)

(***************************************************************************)
(* Properties of op_webgpu_buffer_get_map_async.                           *)
(***************************************************************************)
\* The device is polled in this step.
PollsDevice ==
    /\ map_async.poll_fut = "ready"
    /\ map_async'.poll_fut = "sleeping" \/ map_async'.polls > map_async.polls

\* C28: a call whose request buffer_map_async rejects returns that error
\* and polls nothing; a call that was accepted polls the device until the
\* map callback has sent its status or has been dropped, and then returns:
\* the empty result after an Ok status, an error otherwise; the device is
\* polled neither after `done` has been set nor after the op has returned.
\* A device poll that fails panics and ends the op there.
C28_MapAsyncTerminates ==
    /\ [][(/\ ret'.op = "op_webgpu_buffer_get_map_async"
           /\ map_async.at # "joined"
           /\ ret'.outcome = "Ok")
            => LET r == global_call(ret'.buffer[1].backend, "buffer_map_async", hubs,
                                    ret'.buffer[1])
               IN  /\ r.out.tag = "Err"
                   /\ ret'.maybe_err = r.out.detail
                   /\ map_async'.at = "returned"
                   /\ map_async'.polls = 0]_vars
    /\ [][PollsDevice => (map_async.at = "joined" /\ ~map_async.done)]_vars
    /\ []((map_async.at = "returned" /\ map_async.channel # "none")
            => /\ ret.op = "op_webgpu_buffer_get_map_async" => ret.outcome # "Pending"
               /\ map_async.polls > 0
               /\ map_async.channel \in {"Ok", "Err", "dropped"})
    /\ [][(map_async.at = "joined" /\ map_async'.at = "returned")
            => IF map_async.channel = "Ok"
               THEN ret'.outcome = "Ok" /\ ret'.maybe_err = "" /\ ret'.err = ""
               ELSE ret'.outcome = "Err" /\ map_async.channel \in {"Err", "dropped"}]_vars
    /\ (map_async.at = "joined" /\ map_async.channel \in {"Ok", "Err", "dropped"})
          ~> (map_async.at = "returned" \/ status = "panicked")

\* The op has returned the empty result: the first poll called no callback,
\* the second delivered Ok, and the poll loop has ended.
C28_Witness ==
    /\ map_async.at = "returned"
    /\ ret.op = "op_webgpu_buffer_get_map_async"
    /\ ret.outcome = "Ok"
    /\ ret.maybe_err = ""
    /\ map_async.channel = "Ok"
    /\ map_async.done
    /\ map_async.poll_fut = "finished"
    /\ map_async.polls = 2

====
